---------------------------- MODULE Spec2Model ----------------------------
(***************************************************************************)
(* POC Portal public API (poc_public_api.py, doc_public_api.py) in front   *)
(* of a PocketBase record store.                                           *)
(*                                                                         *)
(* The store is modelled as five collections of records kept in insertion  *)
(* order; a record's id is its position in its collection.  A filtered     *)
(* list call returns the matching records in insertion order, so items[0]  *)
(* is the oldest match.  Every request handler is one action: requests are *)
(* served one after another and every backend call succeeds.               *)
(*                                                                         *)
(* Strings that the code takes apart (emails, comment texts) are sequences *)
(* of one-character strings; all other strings are atoms.  An absent JSON  *)
(* field is NONE for numbers, "" for strings and "none" for booleans.      *)
(* Optional project fields that no lookup reads (partner, start and end    *)
(* dates, risk status, name) are left out of the project records.          *)
(***************************************************************************)
EXTENDS Integers, Sequences, FiniteSets, TLC

VARIABLES
    users,      \* collection users:          [email, role]
    pocs,       \* collection pocs:           [poc_uid, se, customer_name, product, is_active, deregistered_at, last_daily_update_at]
    ucs,        \* collection use_cases:      [code, version, title]
    pucs,       \* collection poc_use_cases:  [poc, use_case, is_active, is_completed, completed_at, rating, order]
    comments,   \* collection comments:       [poc, poc_use_case, use_case, author, kind, text, rating]
    snaps,      \* collection daily_status:   [poc, se]
    secret,     \* API_SHARED_SECRET of the process ("" when not configured)
    now,        \* the wall clock, one tick per request
    last,       \* the last request served and the response it got
    pre,        \* the store as the last request found it
    task,       \* per worker: the request in flight and where its handler stands
    auth        \* the cached bearer token of the process and its bookkeeping

vars == <<users, pocs, ucs, pucs, comments, snaps, secret, now, last, pre, task, auth>>

---------------------------------------------------------------------------
(* Bounds and input sets *)

MaxClock == 3

NONE == -1
NoTime == 0

Emails == { <<"a">>, <<"A">>, <<"b", "a">> }    \* sa_email of register
DocEmails == { <<"A">> }                        \* se_email of doc_public_api
Customers == { "Acme" }
Products == { "P1" }
Headers == { "", "s3", "bad" }                  \* X-Api-Key ("" when missing)
Secrets == { "", "s3" }
Texts == { <<>>, <<" ">>, <<" ", "k">> }
FullTexts == { <<" ", "k">> }
DocTexts == { <<>>, <<" ", "k">> }
Ratings == { NONE, 0, 3, 6 }
ValidRatings == { 3 }
DocRatings == { NONE, 6 }
Kinds == { "question", "rant" }                 \* "" when the field is absent
Codes == { "dash" }                             \* use_case_code of the single-action calls
Completed == { "none", "true", "false" }
ClientUids == { 1 }      \* poc_uid values a doc_public_api client makes up
UnknownUids == { 99 }    \* a poc_uid no project ever gets

UcEntry(code, version, title, order, is_active, is_completed) ==
    [code |-> code, version |-> version, title |-> title, order |-> order,
     is_active |-> is_active, is_completed |-> is_completed]

HbDash == UcEntry("dash", NONE, "", NONE, "none", "false")
HbOther == UcEntry("other", NONE, "", NONE, "none", "true")
HbDashOff == UcEntry("dash", 2, "Dashboard", 5, "false", "none")
HbNoCode == UcEntry("", NONE, "", NONE, "none", "none")
HbDashTitled == UcEntry("dash", NONE, "Dashboard", 5, "false", "none")

HbLists == { <<>>, <<HbDash>>, <<HbOther>>, <<HbNoCode, HbDashOff>> }
HbUnknownLists == { <<HbDash>> }

DuEntry(code, is_active, is_completed, rating, feedback, questions) ==
    [code |-> code, version |-> NONE, title |-> "", is_active |-> is_active,
     is_completed |-> is_completed, rating |-> rating,
     feedback |-> feedback, questions |-> questions]

DuDash == DuEntry("dash", "true", "false", NONE, <<>>, <<>>)
DuOther == DuEntry("other", "none", "true", 6, << <<" ", "k">>, <<>> >>, << <<" ", "k">> >>)
DuNoCode == DuEntry("", "none", "none", NONE, <<>>, <<>>)

DuLists == { <<DuDash>>, <<DuOther>>, <<DuOther, DuNoCode>> }

---------------------------------------------------------------------------
(* Python string helpers *)

Lower(c) ==
    CASE c = "A" -> "a"
      [] c = "B" -> "b"
      [] OTHER -> c

LowerStr(s) == [i \in 1..Len(s) |-> Lower(s[i])]

RECURSIVE LStrip(_)
LStrip(s) == IF s # <<>> /\ Head(s) = " " THEN LStrip(Tail(s)) ELSE s

RECURSIVE RStrip(_)
RStrip(s) ==
    IF s # <<>> /\ s[Len(s)] = " " THEN RStrip(SubSeq(s, 1, Len(s) - 1)) ELSE s

Strip(s) == RStrip(LStrip(s))

NormEmail(email) == LowerStr(Strip(email))

(* PocketBase filter operators on strings *)

Contains(hay, needle) ==
    \E i \in 0..(Len(hay) - Len(needle)) :
        SubSeq(hay, i + 1, i + Len(needle)) = needle

Like(hay, needle) == Contains(LowerStr(hay), LowerStr(needle))

---------------------------------------------------------------------------
(* The store as one value, and filtered listing *)

DB == [users |-> users, pocs |-> pocs, ucs |-> ucs, pucs |-> pucs,
       comments |-> comments, snaps |-> snaps]

Min(S) == CHOOSE x \in S : \A y \in S : x <= y

FirstOf(S) == IF S = {} THEN 0 ELSE Min(S)

RECURSIVE SortedSeq(_)
SortedSeq(S) == IF S = {} THEN <<>> ELSE <<Min(S)>> \o SortedSeq(S \ {Min(S)})

Page(S, perPage) ==
    LET all == SortedSeq(S)
    IN IF Len(all) <= perPage THEN all ELSE SubSeq(all, 1, perPage)

---------------------------------------------------------------------------
(* Resolvers of poc_public_api.py.  Each takes the store d and returns the *)
(* store after its backend calls together with what it returns.            *)

UserLikeFilter(d, e) == { i \in 1..Len(d.users) : Like(d.users[i].email, e) }

find_user_by_email(d, email) == FirstOf(UserLikeFilter(d, NormEmail(email)))

get_or_create_user_se(d, email) ==
    LET e == NormEmail(email)
        hit == FirstOf(UserLikeFilter(d, e))
    IN IF hit # 0
       THEN [db |-> IF d.users[hit].role = ""
                    THEN [d EXCEPT !.users[hit].role = "se"]
                    ELSE d,
             id |-> hit, is_new |-> FALSE]
       ELSE [db |-> [d EXCEPT !.users = Append(@, [email |-> e, role |-> "se"])],
             id |-> Len(d.users) + 1, is_new |-> TRUE]

(* the lookup restricted to projects that are still registered *)
CompositeFilterActive(d, user_id, customer_name, product) ==
    { i \in 1..Len(d.pocs) : /\ d.pocs[i].se = user_id
                             /\ d.pocs[i].customer_name = customer_name
                             /\ d.pocs[i].product = product
                             /\ d.pocs[i].is_active }

CompositeFilter(d, user_id, customer_name, product) ==
    { i \in 1..Len(d.pocs) : /\ d.pocs[i].se = user_id
                             /\ d.pocs[i].customer_name = customer_name
                             /\ d.pocs[i].product = product }

find_poc_by_composite_key(d, sa_email, customer_name, product) ==
    LET user_id == find_user_by_email(d, sa_email)
    IN IF user_id = 0 THEN 0
       ELSE FirstOf(CompositeFilter(d, user_id, customer_name, product))

UidFilterAny(d, poc_uid) == 1..Len(d.pocs)

UidFilter(d, poc_uid) == { i \in 1..Len(d.pocs) : d.pocs[i].poc_uid = poc_uid }

find_poc_by_uid(d, poc_uid) == FirstOf(UidFilter(d, poc_uid))

generate_poc_uid(d) == 10 + Len(d.pocs) + 1

UseCaseFilterTitle(d, code, version) ==
    { i \in 1..Len(d.ucs) : d.ucs[i].title = code /\ d.ucs[i].version = version }

UseCaseFilter(d, code, version) ==
    { i \in 1..Len(d.ucs) : d.ucs[i].code = code /\ d.ucs[i].version = version }

DefaultTitle(code) ==
    CASE code = "dash" -> "Dash"
      [] code = "other" -> "Other"
      [] OTHER -> code

get_or_create_usecase(d, code, title, version) ==
    LET hit == FirstOf(UseCaseFilter(d, code, version))
    IN IF hit # 0
       THEN [db |-> IF title # "" /\ d.ucs[hit].title # title
                    THEN [d EXCEPT !.ucs[hit].title = title]
                    ELSE d,
             id |-> hit]
       ELSE [db |-> [d EXCEPT !.ucs = Append(@,
                        [code |-> code,
                         title |-> IF title = "" THEN DefaultTitle(code) ELSE title,
                         version |-> version])],
             id |-> Len(d.ucs) + 1]

LinkFilter(d, poc_id, uc_id) ==
    { i \in 1..Len(d.pucs) : d.pucs[i].poc = poc_id /\ d.pucs[i].use_case = uc_id }

LinkUpdateRestamp(existing, order, is_active, is_completed, t) ==
    [existing EXCEPT
        !.order = IF order # NONE THEN order ELSE @,
        !.is_active = IF is_active # "none" THEN is_active = "true" ELSE @,
        !.is_completed = IF is_completed # "none" THEN is_completed = "true" ELSE @,
        !.completed_at = IF is_completed = "true" THEN t
                         ELSE IF is_completed = "false" THEN NoTime ELSE @]

LinkUpdate(existing, order, is_active, is_completed, t) ==
    LET a == IF order # NONE /\ existing.order # order
             THEN [existing EXCEPT !.order = order] ELSE existing
        b == IF is_active # "none" /\ a.is_active # (is_active = "true")
             THEN [a EXCEPT !.is_active = (is_active = "true")] ELSE a
    IN IF is_completed # "none" /\ b.is_completed # (is_completed = "true")
       THEN [b EXCEPT !.is_completed = (is_completed = "true"),
                      !.completed_at = IF is_completed = "true" THEN t ELSE NoTime]
       ELSE b

LinkCreateUnstamped(poc_id, uc_id, order, is_active, is_completed, t) ==
    [poc |-> poc_id, use_case |-> uc_id,
     is_active |-> IF is_active # "none" THEN is_active = "true" ELSE TRUE,
     is_completed |-> IF is_completed # "none" THEN is_completed = "true" ELSE FALSE,
     completed_at |-> NoTime,
     rating |-> 0,
     order |-> IF order # NONE THEN order ELSE 0]

LinkCreate(poc_id, uc_id, order, is_active, is_completed, t) ==
    [poc |-> poc_id, use_case |-> uc_id,
     is_active |-> IF is_active # "none" THEN is_active = "true" ELSE TRUE,
     is_completed |-> IF is_completed # "none" THEN is_completed = "true" ELSE FALSE,
     completed_at |-> IF is_completed = "true" THEN t ELSE NoTime,
     rating |-> 0,
     order |-> IF order # NONE THEN order ELSE 0]

get_or_create_poc_usecase(d, poc_id, uc_id, order, is_active, is_completed, t) ==
    LET hit == FirstOf(LinkFilter(d, poc_id, uc_id))
    IN IF hit # 0
       THEN [db |-> [d EXCEPT !.pucs[hit] =
                        LinkUpdate(@, order, is_active, is_completed, t)],
             id |-> hit]
       ELSE [db |-> [d EXCEPT !.pucs = Append(@,
                        LinkCreate(poc_id, uc_id, order, is_active, is_completed, t))],
             id |-> Len(d.pucs) + 1]

---------------------------------------------------------------------------
(* Resolvers of doc_public_api.py *)

UserEqFilter(d, email) == { i \in 1..Len(d.users) : d.users[i].email = email }

doc_get_or_create_user_se(d, email) ==
    LET hit == FirstOf(UserEqFilter(d, email))
    IN IF hit # 0 THEN [db |-> d, id |-> hit]
       ELSE [db |-> [d EXCEPT !.users = Append(@, [email |-> email, role |-> "se"])],
             id |-> Len(d.users) + 1]

doc_get_or_create_usecase(d, code, title, version) ==
    LET hit == FirstOf(UseCaseFilter(d, code, version))
    IN IF hit # 0 THEN [db |-> d, id |-> hit]
       ELSE [db |-> [d EXCEPT !.ucs = Append(@,
                        [code |-> code,
                         title |-> IF title = "" THEN DefaultTitle(code) ELSE title,
                         version |-> version])],
             id |-> Len(d.ucs) + 1]

get_or_create_poc(d, poc_uid, customer_name, se_id, t) ==
    LET hit == FirstOf(UidFilter(d, poc_uid))
    IN IF hit # 0 THEN [db |-> d, id |-> hit]
       ELSE [db |-> [d EXCEPT !.pocs = Append(@,
                        [poc_uid |-> poc_uid, se |-> se_id,
                         customer_name |-> customer_name, product |-> "",
                         is_active |-> TRUE, deregistered_at |-> NoTime,
                         last_daily_update_at |-> t])],
             id |-> Len(d.pocs) + 1]

doc_get_or_create_poc_usecase(d, poc_id, uc_id) ==
    LET hit == FirstOf(LinkFilter(d, poc_id, uc_id))
    IN IF hit # 0 THEN [db |-> d, id |-> hit]
       ELSE [db |-> [d EXCEPT !.pucs = Append(@,
                        [poc |-> poc_id, use_case |-> uc_id,
                         is_active |-> FALSE, is_completed |-> FALSE,
                         completed_at |-> NoTime, rating |-> 0, order |-> 0])],
             id |-> Len(d.pucs) + 1]

---------------------------------------------------------------------------
(* Responses.  A handler returns the store it leaves behind and the JSON   *)
(* it answers; fields a response does not carry keep their defaults.       *)

Ok(d) ==
    [db |-> d, status |-> 200, error |-> "", poc_uid |-> NONE, is_new |-> FALSE,
     poc_id |-> 0, uc_id |-> 0, puc_id |-> 0, comment_id |-> 0, processed |-> 0]

Err(d, status, error) == [Ok(d) EXCEPT !.status = status, !.error = error]

check_api_key_present(sec, hdr) == IF sec = "" THEN TRUE ELSE hdr # ""

check_api_key(sec, hdr) == IF sec = "" THEN TRUE ELSE hdr = sec

---------------------------------------------------------------------------
(* Handlers of poc_public_api.py *)

NewPoc(poc_uid, se_id, customer_name, product, t) ==
    [poc_uid |-> poc_uid, se |-> se_id, customer_name |-> customer_name,
     product |-> product, is_active |-> TRUE, deregistered_at |-> NoTime,
     last_daily_update_at |-> t]

api_register(d, req, t) ==
    IF req.sa_email = <<>> \/ req.prospect = "" \/ req.product = ""
    THEN Err(d, 400, "missing_required_fields")
    ELSE LET existing == find_poc_by_composite_key(d, req.sa_email, req.prospect, req.product)
         IN IF existing # 0
            THEN [Ok(d) EXCEPT !.poc_uid = d.pocs[existing].poc_uid,
                               !.poc_id = existing]
            ELSE LET u == get_or_create_user_se(d, req.sa_email)
                     poc_uid == generate_poc_uid(u.db)
                     d2 == [u.db EXCEPT !.pocs = Append(@,
                               NewPoc(poc_uid, u.id, req.prospect, req.product, t))]
                 IN [Ok(d2) EXCEPT !.poc_uid = poc_uid, !.is_new = TRUE,
                                   !.poc_id = Len(d2.pocs)]

DeregisterPatchRekey(poc, t) ==
    [poc EXCEPT !.is_active = FALSE, !.deregistered_at = t, !.poc_uid = NONE]

DeregisterPatchToggle(poc, t) ==
    [poc EXCEPT !.is_active = ~@, !.deregistered_at = t]

DeregisterPatch(poc, t) ==
    [poc EXCEPT !.is_active = FALSE, !.deregistered_at = t]

api_deregister(d, req, t) ==
    IF req.poc_uid = NONE THEN Err(d, 400, "missing_poc_uid")
    ELSE LET poc == find_poc_by_uid(d, req.poc_uid)
         IN IF poc = 0 THEN [Ok(d) EXCEPT !.poc_uid = req.poc_uid]
            ELSE [Ok([d EXCEPT !.pocs[poc] = DeregisterPatch(@, t)])
                    EXCEPT !.poc_uid = req.poc_uid, !.poc_id = poc]

PerPageLinks == 500

PocLinks(d, poc_id) ==
    Page({ i \in 1..Len(d.pucs) : d.pucs[i].poc = poc_id }, PerPageLinks)

DeactivateNothing(d, existing_pucs) == d

Deactivate(d, existing_pucs) ==
    [d EXCEPT !.pucs = [i \in 1..Len(d.pucs) |->
        IF (\E k \in 1..Len(existing_pucs) : existing_pucs[k] = i) /\ d.pucs[i].is_active
        THEN [d.pucs[i] EXCEPT !.is_active = FALSE]
        ELSE d.pucs[i]]]

HbVersion(uc_data) == IF uc_data.version = NONE \/ uc_data.version = 0 THEN 1 ELSE uc_data.version
HbActiveAsSent(uc_data) == uc_data.is_active
HbActive(uc_data) == IF uc_data.is_active = "none" THEN "true" ELSE uc_data.is_active
HbCompleted(uc_data) == IF uc_data.is_completed = "none" THEN "false" ELSE uc_data.is_completed

HbEntry(d, poc_id, uc_data, t) ==
    LET uc == get_or_create_usecase(d, uc_data.code, uc_data.title, HbVersion(uc_data))
    IN get_or_create_poc_usecase(uc.db, poc_id, uc.id, uc_data.order,
                                 HbActive(uc_data), HbCompleted(uc_data), t).db

RECURSIVE HbProcess(_, _, _, _, _)
HbProcess(d, poc_id, use_cases_data, t, processed_count) ==
    IF use_cases_data = <<>> THEN [db |-> d, processed |-> processed_count]
    ELSE IF Head(use_cases_data).code = ""
         THEN HbProcess(d, poc_id, Tail(use_cases_data), t, processed_count)
         ELSE HbProcess(HbEntry(d, poc_id, Head(use_cases_data), t), poc_id,
                        Tail(use_cases_data), t, processed_count + 1)

api_heartbeat(d, req, t) ==
    IF req.poc_uid = NONE THEN Err(d, 400, "missing_poc_uid")
    ELSE IF req.use_cases = <<>> THEN Err(d, 400, "missing_use_cases")
    ELSE LET poc == find_poc_by_uid(d, req.poc_uid)
         IN IF poc = 0 THEN Err(d, 404, "poc_not_found")
            ELSE LET d1 == [d EXCEPT !.pocs[poc].last_daily_update_at = t]
                     d2 == Deactivate(d1, PocLinks(d1, poc))
                     r == HbProcess(d2, poc, req.use_cases, t, 0)
                 IN [Ok(r.db) EXCEPT !.poc_uid = req.poc_uid, !.poc_id = poc,
                                     !.processed = r.processed]

api_complete_use_case(d, req, t) ==
    IF req.poc_uid = NONE \/ req.use_case_code = "" \/ req.completed = "none"
    THEN Err(d, 400, "missing_required_fields")
    ELSE LET poc == find_poc_by_uid(d, req.poc_uid)
         IN IF poc = 0 THEN Err(d, 404, "poc_not_found")
            ELSE LET uc == get_or_create_usecase(d, req.use_case_code, "", 1)
                     puc == get_or_create_poc_usecase(uc.db, poc, uc.id, NONE,
                                                      "true", req.completed, t)
                 IN [Ok(puc.db) EXCEPT !.poc_uid = req.poc_uid, !.poc_id = poc,
                                       !.uc_id = uc.id, !.puc_id = puc.id]

ValidRatingAny(rating) == TRUE

ValidRating(rating) == ~(rating < 1 \/ rating > 5)

RatingPatchProject(d, puc_id, rating) ==
    [d EXCEPT !.pucs = [i \in 1..Len(d.pucs) |->
        IF d.pucs[i].poc = d.pucs[puc_id].poc
        THEN [d.pucs[i] EXCEPT !.rating = rating] ELSE d.pucs[i]]]

RatingPatchReactivate(d, puc_id, rating) ==
    [d EXCEPT !.pucs[puc_id].rating = rating, !.pucs[puc_id].is_active = TRUE]

RatingPatch(d, puc_id, rating) == [d EXCEPT !.pucs[puc_id].rating = rating]

api_rating(d, req, t) ==
    IF req.poc_uid = NONE \/ req.use_case_code = "" \/ req.rating = NONE
    THEN Err(d, 400, "missing_required_fields")
    ELSE IF ~ValidRating(req.rating) THEN Err(d, 400, "invalid_rating")
    ELSE LET poc == find_poc_by_uid(d, req.poc_uid)
         IN IF poc = 0 THEN Err(d, 404, "poc_not_found")
            ELSE LET uc == get_or_create_usecase(d, req.use_case_code, "", 1)
                     puc == get_or_create_poc_usecase(uc.db, poc, uc.id, NONE,
                                                      "none", "none", t)
                     d2 == RatingPatch(puc.db, puc.id, req.rating)
                 IN [Ok(d2) EXCEPT !.poc_uid = req.poc_uid, !.poc_id = poc,
                                   !.uc_id = uc.id, !.puc_id = puc.id]

PostCommentOnce(cs, c) ==
    IF \E i \in 1..Len(cs) : cs[i] = c THEN cs ELSE Append(cs, c)

PostComment(cs, c) == Append(cs, c)

NewComment(poc_id, puc_id, uc_id, author, kind, text, rating) ==
    [poc |-> poc_id, poc_use_case |-> puc_id, use_case |-> uc_id,
     author |-> author, kind |-> kind, text |-> text, rating |-> rating]

FeedbackTextRaw(text) == text

FeedbackText(text) == Strip(text)

api_feedback(d, req, t) ==
    LET text == FeedbackText(req.text)
    IN IF req.poc_uid = NONE \/ req.use_case_code = ""
       THEN Err(d, 400, "missing_required_fields")
       ELSE IF text = <<>> THEN Err(d, 400, "missing_text")
       ELSE LET poc == find_poc_by_uid(d, req.poc_uid)
            IN IF poc = 0 THEN Err(d, 404, "poc_not_found")
               ELSE LET uc == get_or_create_usecase(d, req.use_case_code, "", 1)
                        puc == get_or_create_poc_usecase(uc.db, poc, uc.id, NONE,
                                                         "none", "none", t)
                        d2 == [puc.db EXCEPT !.comments = PostComment(@,
                                  NewComment(poc, puc.id, 0, d.pocs[poc].se,
                                             "feedback", text, NONE))]
                    IN [Ok(d2) EXCEPT !.poc_uid = req.poc_uid, !.poc_id = poc,
                                      !.uc_id = uc.id, !.puc_id = puc.id,
                                      !.comment_id = Len(d2.comments)]

---------------------------------------------------------------------------
(* Handlers of doc_public_api.py *)

DuVersion(uc) == IF uc.version = NONE THEN 1 ELSE uc.version

RECURSIVE DuComments(_, _, _, _, _, _, _)
DuComments(d, poc_id, uc_id, se_id, kind, texts, rating) ==
    IF texts = <<>> THEN d
    ELSE DuComments(
            IF Head(texts) # <<>>
            THEN [d EXCEPT !.comments = PostComment(@,
                     NewComment(poc_id, 0, uc_id, se_id, kind, Head(texts), rating))]
            ELSE d,
            poc_id, uc_id, se_id, kind, Tail(texts), rating)

DuLinkPatch(puc, uc, t) ==
    [puc EXCEPT !.is_active = (uc.is_active = "true"),
                !.is_completed = (uc.is_completed = "true"),
                !.completed_at = IF uc.is_completed = "true" THEN t ELSE @,
                !.rating = IF uc.rating # NONE THEN uc.rating ELSE @]

DuEntryStep(d, poc_id, se_id, uc, t) ==
    LET c == doc_get_or_create_usecase(d, uc.code, uc.title, DuVersion(uc))
        l == doc_get_or_create_poc_usecase(c.db, poc_id, c.id)
        d1 == [l.db EXCEPT !.pucs[l.id] = DuLinkPatch(@, uc, t)]
        d2 == DuComments(d1, poc_id, c.id, se_id, "feedback", uc.feedback, uc.rating)
    IN DuComments(d2, poc_id, c.id, se_id, "question", uc.questions, NONE)

RECURSIVE DuProcess(_, _, _, _, _)
DuProcess(d, poc_id, se_id, use_cases, t) ==
    IF use_cases = <<>> THEN [db |-> d, ok |-> TRUE]
    ELSE IF Head(use_cases).code = "" THEN [db |-> d, ok |-> FALSE]
    ELSE DuProcess(DuEntryStep(d, poc_id, se_id, Head(use_cases), t),
                   poc_id, se_id, Tail(use_cases), t)

api_daily_update(d, req, t) ==
    LET u == doc_get_or_create_user_se(d, req.se_email)
        p == get_or_create_poc(u.db, req.poc_uid, req.customer_name, u.id, t)
        d1 == [p.db EXCEPT !.pocs[p.id].last_daily_update_at = t]
        d2 == [d1 EXCEPT !.snaps = Append(@, [poc |-> p.id, se |-> u.id])]
        existing_pucs == PocLinks(d2, p.id)
        d3 == Deactivate(Deactivate(d2, existing_pucs), existing_pucs)
        r == DuProcess(d3, p.id, u.id, req.use_cases, t)
    IN IF r.ok
       THEN [Ok(r.db) EXCEPT !.poc_uid = req.poc_uid, !.poc_id = p.id]
       ELSE [Err(r.db, 500, "internal_error") EXCEPT !.poc_id = p.id]

DocCompletePatch(puc, rating, t) ==
    [puc EXCEPT !.is_active = TRUE, !.is_completed = TRUE, !.completed_at = t,
                !.rating = IF rating # NONE THEN rating ELSE @]

doc_api_complete_use_case(d, req, t) ==
    LET u == doc_get_or_create_user_se(d, req.se_email)
        p == get_or_create_poc(u.db, req.poc_uid, req.customer_name, u.id, t)
        c == doc_get_or_create_usecase(p.db, req.use_case_code, "", 1)
        l == doc_get_or_create_poc_usecase(c.db, p.id, c.id)
        d1 == [l.db EXCEPT !.pucs[l.id] = DocCompletePatch(@, req.rating, t)]
        d2 == IF req.text # <<>> \/ req.rating # NONE
              THEN [d1 EXCEPT !.comments = PostComment(@,
                       NewComment(p.id, 0, c.id, u.id, "feedback", req.text, req.rating))]
              ELSE d1
    IN [Ok(d2) EXCEPT !.poc_uid = req.poc_uid, !.poc_id = p.id,
                      !.uc_id = c.id, !.puc_id = l.id]

ValidKindAny(kind) == TRUE

ValidKind(kind) == kind \in { "feedback", "question" }

api_comment(d, req, t) ==
    LET u == doc_get_or_create_user_se(d, req.se_email)
        p == get_or_create_poc(u.db, req.poc_uid, req.customer_name, u.id, t)
        c == doc_get_or_create_usecase(p.db, req.use_case_code, "", 1)
        l == doc_get_or_create_poc_usecase(c.db, p.id, c.id)
        kind == IF req.kind = "" THEN "feedback" ELSE req.kind
    IN IF ~ValidKind(kind)
       THEN [Err(l.db, 400, "invalid_kind") EXCEPT !.poc_id = p.id, !.uc_id = c.id,
                                                   !.puc_id = l.id]
       ELSE LET d1 == [l.db EXCEPT !.comments = PostComment(@,
                          NewComment(p.id, 0, c.id, u.id, kind, req.text, req.rating))]
            IN [Ok(d1) EXCEPT !.poc_id = p.id, !.uc_id = c.id, !.puc_id = l.id,
                              !.comment_id = Len(d1.comments)]

---------------------------------------------------------------------------
(* Requests *)

NoReq == [none |-> TRUE]

ExistingUids == { pocs[i].poc_uid : i \in 1..Len(pocs) }

RegisterReqs ==
    [sa_email : Emails \cup { <<>> }, prospect : Customers, product : Products]
DeregisterReqs == [poc_uid : { NONE } \cup UnknownUids \cup ExistingUids]
HeartbeatReqs ==
    [poc_uid : ExistingUids, use_cases : HbLists]
        \cup [poc_uid : UnknownUids, use_cases : HbUnknownLists]
CompleteReqs ==
    [poc_uid : ExistingUids, use_case_code : Codes, completed : Completed]
        \cup [poc_uid : UnknownUids, use_case_code : Codes, completed : { "true" }]
RatingReqs ==
    [poc_uid : ExistingUids, use_case_code : Codes, rating : Ratings]
        \cup [poc_uid : UnknownUids, use_case_code : Codes, rating : ValidRatings]
FeedbackReqs ==
    [poc_uid : ExistingUids, use_case_code : Codes, text : Texts]
        \cup [poc_uid : UnknownUids, use_case_code : Codes, text : FullTexts]
DailyUpdateReqs ==
    [se_email : DocEmails, poc_uid : ClientUids, customer_name : Customers,
     use_cases : DuLists]
DocCompleteReqs ==
    [se_email : DocEmails, poc_uid : ClientUids, customer_name : Customers,
     use_case_code : Codes, rating : DocRatings, text : DocTexts]
CommentReqs ==
    [se_email : DocEmails, poc_uid : ClientUids, customer_name : Customers,
     use_case_code : Codes, kind : { "" }, rating : { NONE }, text : DocTexts]
        \cup [se_email : DocEmails, poc_uid : ClientUids, customer_name : Customers,
              use_case_code : Codes, kind : Kinds, rating : { NONE }, text : FullTexts]

---------------------------------------------------------------------------
(* Requests in flight and the token cache.  In Spec no request is ever in  *)
(* flight between two actions and the token is not looked at; RaceSpec and *)
(* FaultSpec run a handler one backend call at a time, AuthSpec runs       *)
(* service_login.                                                          *)

Workers == { 1, 2 }

EmptyDB == [users |-> <<>>, pocs |-> <<>>, ucs |-> <<>>, pucs |-> <<>>,
            comments |-> <<>>, snaps |-> <<>>]

IdleTask ==
    [op |-> "", req |-> NoReq, pc |-> "idle", start |-> EmptyDB, t |-> NoTime,
     poc |-> 0, se |-> 0, uc |-> 0, puc |-> 0, k |-> 0, links |-> <<>>,
     seen |-> NoReq, processed |-> 0, status |-> 0, error |-> "",
     poc_uid |-> NONE, is_new |-> FALSE, calls |-> 0, refused |-> 0,
     at |-> "", how |-> "ok", writes |-> 0, miss |-> 0]

(* AUTH_TOKEN and AUTH_TOKEN_TIME of the poc_public_api process, AUTH_TOKEN *)
(* of the doc_public_api process (doc_time, the time it was cached, is     *)
(* bookkeeping of the model: the code does not keep it), the clock, and    *)
(* what the last service_login call found and did.                         *)
NoAuth ==
    [token |-> FALSE, token_time |-> NoTime, doc_token |-> FALSE, doc_time |-> NoTime,
     clock |-> 1, ticks |-> 0,
     api |-> "", force |-> FALSE, sent |-> FALSE, granted |-> FALSE,
     had |-> FALSE, had_time |-> NoTime, at |-> 0]

---------------------------------------------------------------------------
(* The state machine *)

NoLast ==
    [api |-> "", op |-> "init", hdr |-> "", parsed |-> FALSE, req |-> NoReq,
     status |-> 0, error |-> "", poc_uid |-> NONE, is_new |-> FALSE,
     poc_id |-> 0, uc_id |-> 0, puc_id |-> 0, comment_id |-> 0, processed |-> 0]

Init ==
    /\ users = <<>> /\ pocs = <<>> /\ ucs = <<>> /\ pucs = <<>>
    /\ comments = <<>> /\ snaps = <<>>
    /\ secret \in Secrets
    /\ now = 1
    /\ pre = [users |-> <<>>, pocs |-> <<>>, ucs |-> <<>>, pucs |-> <<>>,
              comments |-> <<>>, snaps |-> <<>>]
    /\ last = NoLast
    /\ task = [w \in Workers |-> IdleTask]
    /\ auth = NoAuth

Serve(api, op, hdr, parsed, req, out) ==
    /\ now <= MaxClock
    /\ users' = out.db.users /\ pocs' = out.db.pocs /\ ucs' = out.db.ucs
    /\ pucs' = out.db.pucs /\ comments' = out.db.comments /\ snaps' = out.db.snaps
    /\ last' = [api |-> api, op |-> op, hdr |-> hdr, parsed |-> parsed, req |-> req,
                status |-> out.status, error |-> out.error, poc_uid |-> out.poc_uid,
                is_new |-> out.is_new, poc_id |-> out.poc_id, uc_id |-> out.uc_id,
                puc_id |-> out.puc_id, comment_id |-> out.comment_id,
                processed |-> out.processed]
    /\ pre' = DB
    /\ now' = now + 1
    /\ UNCHANGED <<secret, task, auth>>

Unauthorized(api, op) ==
    \E hdr \in Headers :
        /\ ~check_api_key(secret, hdr)
        /\ Serve(api, op, hdr, FALSE, NoReq, Err(DB, 401, "unauthorized"))

InvalidJson(api, op) ==
    \E hdr \in Headers :
        /\ check_api_key(secret, hdr)
        /\ Serve(api, op, hdr, FALSE, NoReq, Err(DB, 400, "invalid_json"))

Register ==
    \/ Unauthorized("poc", "register")
    \/ InvalidJson("poc", "register")
    \/ \E hdr \in Headers, req \in RegisterReqs :
          /\ check_api_key(secret, hdr)
          /\ Serve("poc", "register", hdr, TRUE, req, api_register(DB, req, now))

Deregister ==
    \/ Unauthorized("poc", "deregister")
    \/ InvalidJson("poc", "deregister")
    \/ \E hdr \in Headers, req \in DeregisterReqs :
          /\ check_api_key(secret, hdr)
          /\ Serve("poc", "deregister", hdr, TRUE, req, api_deregister(DB, req, now))

Heartbeat ==
    \/ Unauthorized("poc", "heartbeat")
    \/ InvalidJson("poc", "heartbeat")
    \/ \E hdr \in Headers, req \in HeartbeatReqs :
          /\ check_api_key(secret, hdr)
          /\ Serve("poc", "heartbeat", hdr, TRUE, req, api_heartbeat(DB, req, now))

CompleteUseCase ==
    \/ Unauthorized("poc", "complete_use_case")
    \/ InvalidJson("poc", "complete_use_case")
    \/ \E hdr \in Headers, req \in CompleteReqs :
          /\ check_api_key(secret, hdr)
          /\ Serve("poc", "complete_use_case", hdr, TRUE, req,
                   api_complete_use_case(DB, req, now))

Rating ==
    \/ Unauthorized("poc", "rating")
    \/ InvalidJson("poc", "rating")
    \/ \E hdr \in Headers, req \in RatingReqs :
          /\ check_api_key(secret, hdr)
          /\ Serve("poc", "rating", hdr, TRUE, req, api_rating(DB, req, now))

Feedback ==
    \/ Unauthorized("poc", "feedback")
    \/ InvalidJson("poc", "feedback")
    \/ \E hdr \in Headers, req \in FeedbackReqs :
          /\ check_api_key(secret, hdr)
          /\ Serve("poc", "feedback", hdr, TRUE, req, api_feedback(DB, req, now))

DailyUpdate ==
    \/ Unauthorized("doc", "daily_update")
    \/ InvalidJson("doc", "daily_update")
    \/ \E hdr \in Headers, req \in DailyUpdateReqs :
          /\ check_api_key(secret, hdr)
          /\ Serve("doc", "daily_update", hdr, TRUE, req, api_daily_update(DB, req, now))

DocCompleteUseCase ==
    \/ Unauthorized("doc", "complete_use_case")
    \/ InvalidJson("doc", "complete_use_case")
    \/ \E hdr \in Headers, req \in DocCompleteReqs :
          /\ check_api_key(secret, hdr)
          /\ Serve("doc", "complete_use_case", hdr, TRUE, req,
                   doc_api_complete_use_case(DB, req, now))

Comment ==
    \/ Unauthorized("doc", "comment")
    \/ InvalidJson("doc", "comment")
    \/ \E hdr \in Headers, req \in CommentReqs :
          /\ check_api_key(secret, hdr)
          /\ Serve("doc", "comment", hdr, TRUE, req, api_comment(DB, req, now))

Next ==
    \/ Register
    \/ Deregister
    \/ Heartbeat
    \/ CompleteUseCase
    \/ Rating
    \/ Feedback
    \/ DailyUpdate
    \/ DocCompleteUseCase
    \/ Comment

Spec == Init /\ [][Next]_vars

---------------------------------------------------------------------------
(* Properties *)

UsersOf(d, e) == { i \in 1..Len(d.users) : d.users[i].email = e }
UseCasesOf(d, code, version) ==
    { i \in 1..Len(d.ucs) : d.ucs[i].code = code /\ d.ucs[i].version = version }
PocsOf(d, poc_uid) == { i \in 1..Len(d.pocs) : d.pocs[i].poc_uid = poc_uid }
LinksOf(d, poc_id, uc_id) ==
    { i \in 1..Len(d.pucs) : d.pucs[i].poc = poc_id /\ d.pucs[i].use_case = uc_id }

UserTwice(e) ==
    LET r1 == get_or_create_user_se(DB, e)
        r2 == get_or_create_user_se(r1.db, e)
    IN r2.id = r1.id /\ Cardinality(UsersOf(r2.db, NormEmail(e))) = 1

DocUserTwice(e) ==
    LET r1 == doc_get_or_create_user_se(DB, e)
        r2 == doc_get_or_create_user_se(r1.db, e)
    IN r2.id = r1.id /\ Cardinality(UsersOf(r2.db, e)) = 1

UseCaseTwice(code) ==
    LET r1 == get_or_create_usecase(DB, code, "", 1)
        r2 == get_or_create_usecase(r1.db, code, "", 1)
        q1 == doc_get_or_create_usecase(DB, code, "", 1)
        q2 == doc_get_or_create_usecase(q1.db, code, "", 1)
    IN /\ r2.id = r1.id /\ Cardinality(UseCasesOf(r2.db, code, 1)) = 1
       /\ q2.id = q1.id /\ Cardinality(UseCasesOf(q2.db, code, 1)) = 1

PocTwice(poc_uid) ==
    LET r1 == get_or_create_poc(DB, poc_uid, "Acme", 1, now)
        r2 == get_or_create_poc(r1.db, poc_uid, "Acme", 1, now)
    IN r2.id = r1.id /\ Cardinality(PocsOf(r2.db, poc_uid)) = 1

LinkTwice(poc_id, uc_id) ==
    LET r1 == get_or_create_poc_usecase(DB, poc_id, uc_id, NONE, "none", "none", now)
        r2 == get_or_create_poc_usecase(r1.db, poc_id, uc_id, NONE, "none", "none", now)
        q1 == doc_get_or_create_poc_usecase(DB, poc_id, uc_id)
        q2 == doc_get_or_create_poc_usecase(q1.db, poc_id, uc_id)
    IN /\ r2.id = r1.id /\ Cardinality(LinksOf(r2.db, poc_id, uc_id)) = 1
       /\ q2.id = q1.id /\ Cardinality(LinksOf(q2.db, poc_id, uc_id)) = 1

AllCodes == { "dash", "other" }

ExactKeysTwice ==
    /\ \A e \in DocEmails : DocUserTwice(e)
    /\ \A code \in AllCodes : UseCaseTwice(code)
    /\ \A poc_uid \in ClientUids \cup UnknownUids \cup ExistingUids : PocTwice(poc_uid)
    /\ \A poc_id \in 1..Len(pocs), uc_id \in 1..Len(ucs) : LinkTwice(poc_id, uc_id)

(* C1: for every resolver, resolving the same natural key twice in a row   *)
(* leaves exactly one record for that key, and the second call returns the *)
(* identifier returned by the first.                                       *)
C1_ResolveTwice ==
    /\ \A e \in Emails : UserTwice(e)
    /\ ExactKeysTwice

(* C1, the part that holds: the resolvers that look their key up by        *)
(* equality (doc user, use case, project by poc_uid, link) are idempotent, *)
(* and get_or_create_user_se returns the same identifier twice and creates *)
(* nothing on the second call.                                             *)
C1_ResolveTwiceExceptUserKey ==
    /\ ExactKeysTwice
    /\ \A e \in Emails :
          LET r1 == get_or_create_user_se(DB, e)
              r2 == get_or_create_user_se(r1.db, e)
          IN r2.id = r1.id /\ r2.db = r1.db

(* The project records of a store that carry the composite key of a        *)
(* register request: owner email (ignoring case and surrounding blanks),   *)
(* customer and product.                                                   *)
ProjectsOfTriple(d, req) ==
    { i \in 1..Len(d.pocs) :
        /\ LowerStr(d.users[d.pocs[i].se].email) = NormEmail(req.sa_email)
        /\ d.pocs[i].customer_name = req.prospect
        /\ d.pocs[i].product = req.product }

RegisterServed ==
    /\ last.api = "poc" /\ last.op = "register" /\ last.parsed
    /\ last.status = 200

(* C2: api_register for a triple that has no project creates one project   *)
(* and answers a new poc_uid with is_new = true; for a triple that has a   *)
(* project it answers that project's poc_uid with is_new = false and       *)
(* creates nothing.                                                        *)
C2_RegisterUpsert ==
    RegisterServed =>
        IF ProjectsOfTriple(pre, last.req) = {}
        THEN /\ last.is_new
             /\ Len(pocs) = Len(pre.pocs) + 1
             /\ pocs[Len(pocs)].poc_uid = last.poc_uid
             /\ \A i \in 1..Len(pre.pocs) : pre.pocs[i].poc_uid # last.poc_uid
        ELSE /\ ~last.is_new
             /\ pocs = pre.pocs
             /\ \E i \in ProjectsOfTriple(pre, last.req) : pocs[i].poc_uid = last.poc_uid

(* C2, the part that holds: a register call for a triple that has a        *)
(* project answers that project's poc_uid with is_new = false and creates  *)
(* no project.                                                             *)
C2_RegisterAgain ==
    (RegisterServed /\ ProjectsOfTriple(pre, last.req) # {}) =>
        /\ ~last.is_new
        /\ pocs = pre.pocs
        /\ \E i \in ProjectsOfTriple(pre, last.req) : pocs[i].poc_uid = last.poc_uid

---------------------------------------------------------------------------
(* Snapshot calls: heartbeat (poc_public_api) and daily_update             *)
(* (doc_public_api)                                                        *)

Max(S) == CHOOSE x \in S : \A y \in S : x >= y

SnapshotOk ==
    /\ last.parsed /\ last.status = 200
    /\ \/ last.api = "poc" /\ last.op = "heartbeat"
       \/ last.api = "doc" /\ last.op = "daily_update"

(* The project a snapshot call names, and the entities (code, version) its *)
(* payload lists; an omitted version is version 1.                         *)
SnapshotPoc == Min(PocsOf(DB, last.req.poc_uid))

EntryEntity(e) == <<e.code, IF e.version = NONE THEN 1 ELSE e.version>>

Listed == { k \in 1..Len(last.req.use_cases) : last.req.use_cases[k].code # "" }

SnapshotEntities == { EntryEntity(last.req.use_cases[k]) : k \in Listed }

LastEntryOf(ent) ==
    last.req.use_cases[Max({ k \in Listed : EntryEntity(last.req.use_cases[k]) = ent })]

LinkEntity(l) == <<ucs[l.use_case].code, ucs[l.use_case].version>>

StaleLinksInactive ==
    \A i \in 1..Len(pre.pucs) :
        (/\ pre.pucs[i].poc = SnapshotPoc
         /\ pre.pucs[i].is_active
         /\ LinkEntity(pre.pucs[i]) \notin SnapshotEntities)
            => ~pucs[i].is_active

(* What the payload asks for: heartbeat takes is_active as true and        *)
(* is_completed as false when omitted, daily_update takes both as false.   *)
AskedActive(e) ==
    IF last.api = "poc" THEN e.is_active # "false" ELSE e.is_active = "true"

AskedCompleted(e) == e.is_completed = "true"

(* C3 as stated: after a successful snapshot call for project P listing    *)
(* the entities S, every link of P that was active and is not in S is      *)
(* inactive, and the link of P for every entity in S exists and is active. *)
C3_SnapshotAllListedActive ==
    SnapshotOk =>
        /\ StaleLinksInactive
        /\ \A ent \in SnapshotEntities :
              \E i \in 1..Len(pucs) :
                  /\ pucs[i].poc = SnapshotPoc /\ LinkEntity(pucs[i]) = ent
                  /\ pucs[i].is_active

(* C3 amended: ... and the link of P for every entity in S exists and      *)
(* carries the flags of the payload's last entry for that entity: active   *)
(* unless the entry says is_active false (daily_update: only when it says  *)
(* is_active true), completed when it says is_completed true.              *)
C3_SnapshotReplacesActiveSet ==
    SnapshotOk =>
        /\ StaleLinksInactive
        /\ \A ent \in SnapshotEntities :
              \E i \in 1..Len(pucs) :
                  /\ pucs[i].poc = SnapshotPoc /\ LinkEntity(pucs[i]) = ent
                  /\ pucs[i].is_active = AskedActive(LastEntryOf(ent))
                  /\ pucs[i].is_completed = AskedCompleted(LastEntryOf(ent))

(* A heartbeat listing only "other" as completed has been served for a     *)
(* project whose "dash" link was active: the stale link is now inactive    *)
(* and the listed one active and completed.                                *)
C3_Witness ==
    /\ SnapshotOk /\ last.api = "poc"
    /\ last.req.use_cases = <<HbOther>>
    /\ \E i \in 1..Len(pre.pucs), j \in 1..Len(pucs) :
          /\ pre.pucs[i].poc = SnapshotPoc /\ pre.pucs[i].is_active
          /\ LinkEntity(pre.pucs[i]) = <<"dash", 1>>
          /\ ~pucs[i].is_active
          /\ pucs[j].poc = SnapshotPoc /\ LinkEntity(pucs[j]) = <<"other", 1>>
          /\ pucs[j].is_active /\ pucs[j].is_completed

---------------------------------------------------------------------------
(* Single-action calls: complete_use_case, rating, feedback                *)
(* (poc_public_api), complete_use_case, comment (doc_public_api)           *)

Called(api, op) == last.api = api /\ last.op = op /\ last.parsed

SingleAction ==
    \/ Called("poc", "complete_use_case")
    \/ Called("poc", "rating")
    \/ Called("poc", "feedback")
    \/ Called("doc", "complete_use_case")
    \/ Called("doc", "comment")

(* Whether a link joins the project and the entity (code, version 1) that  *)
(* the single-action request names.                                        *)
IsTarget(l) ==
    /\ pocs[l.poc].poc_uid = last.req.poc_uid
    /\ ucs[l.use_case].code = last.req.use_case_code
    /\ ucs[l.use_case].version = 1

TargetLinks == { i \in 1..Len(pucs) : IsTarget(pucs[i]) }

(* C4: a single-action call for entity E of project P leaves every link    *)
(* other than the (P, E) link as it was, and creates no other link.        *)
C4_OtherLinksUntouched ==
    SingleAction =>
        /\ Len(pucs) >= Len(pre.pucs)
        /\ \A i \in 1..Len(pucs) :
              ~IsTarget(pucs[i]) => (i <= Len(pre.pucs) /\ pucs[i] = pre.pucs[i])

(* A single-action call changed its own link while the project has         *)
(* another link.                                                           *)
C4_Witness ==
    /\ SingleAction /\ last.status = 200
    /\ \E i \in TargetLinks, j \in 1..Len(pre.pucs) :
          /\ i <= Len(pre.pucs) /\ pucs[i] # pre.pucs[i]
          /\ j # i /\ pucs[j].poc = pucs[i].poc

OutOfRange(rating) == rating # NONE /\ (rating < 1 \/ rating > 5)

(* C5: a call that sets a rating outside 1..5 (api_rating, and             *)
(* complete_use_case of doc_public_api, which takes a rating) is answered  *)
(* 400 and changes no link.                                                *)
C5_InvalidRatingRejected ==
    ((Called("poc", "rating") \/ Called("doc", "complete_use_case"))
        /\ OutOfRange(last.req.rating))
        => (last.status = 400 /\ pucs = pre.pucs)

(* C5, the part that holds: api_rating of poc_public_api rejects a rating  *)
(* outside 1..5 with 400 invalid_rating and leaves the whole store as it   *)
(* was.                                                                    *)
C5_ApiRatingRejects ==
    (Called("poc", "rating") /\ last.req.poc_uid # NONE /\ OutOfRange(last.req.rating))
        => (last.status = 400 /\ last.error = "invalid_rating" /\ DB = pre)

(* C6: api_comment with a kind other than feedback or question is answered *)
(* 400 invalid_kind and the comment records are the same as before.        *)
C6_InvalidKindRejected ==
    (Called("doc", "comment") /\ last.req.kind \notin { "", "feedback", "question" })
        => (last.status = 400 /\ last.error = "invalid_kind" /\ comments = pre.comments)

(* A comment of kind "rant" was rejected while a comment record exists.    *)
C6_Witness ==
    /\ Called("doc", "comment") /\ last.req.kind = "rant"
    /\ last.status = 400 /\ comments # <<>>

NewComments == SubSeq(comments, Len(pre.comments) + 1, Len(comments))

OldCommentsKept ==
    /\ Len(comments) >= Len(pre.comments)
    /\ SubSeq(comments, 1, Len(pre.comments)) = pre.comments

(* An api_feedback request that names a project of the store and a code.   *)
FeedbackOnProject ==
    /\ Called("poc", "feedback")
    /\ last.req.use_case_code # ""
    /\ PocsOf(pre, last.req.poc_uid) # {}

(* The non-empty feedback strings of a daily_update payload, in order.     *)
RECURSIVE DuFeedback(_)
DuFeedback(use_cases) ==
    IF use_cases = <<>> THEN <<>>
    ELSE SelectSeq(Head(use_cases).feedback, LAMBDA x : x # <<>>)
            \o DuFeedback(Tail(use_cases))

RECURSIVE TextsOf(_)
TextsOf(cs) == IF cs = <<>> THEN <<>> ELSE <<Head(cs).text>> \o TextsOf(Tail(cs))

DailyFeedbackStored ==
    (Called("doc", "daily_update") /\ last.status = 200) =>
        /\ OldCommentsKept
        /\ TextsOf(SelectSeq(NewComments, LAMBDA c : c.kind = "feedback"))
              = DuFeedback(last.req.use_cases)

(* C7 as stated: feedback with empty text creates no comment; feedback     *)
(* with a non-empty text for an existing project creates exactly one       *)
(* comment of kind feedback whose text is the submitted text.              *)
C7_FeedbackTextAsSubmitted ==
    /\ (Called("poc", "feedback") /\ last.req.text = <<>>) => comments = pre.comments
    /\ (FeedbackOnProject /\ last.req.text # <<>>) =>
          /\ OldCommentsKept
          /\ Len(NewComments) = 1
          /\ NewComments[1].kind = "feedback"
          /\ NewComments[1].text = last.req.text
    /\ DailyFeedbackStored

(* C7 amended: api_feedback strips the text first. A text that is empty    *)
(* after stripping creates no comment; otherwise, for an existing project, *)
(* exactly one comment of kind feedback is created and its text is the     *)
(* stripped text. daily_update stores every non-empty feedback string as   *)
(* one feedback comment with the text as submitted.                        *)
C7_FeedbackTextStripped ==
    /\ (Called("poc", "feedback") /\ Strip(last.req.text) = <<>>) =>
          comments = pre.comments
    /\ (FeedbackOnProject /\ Strip(last.req.text) # <<>>) =>
          /\ last.status = 200
          /\ OldCommentsKept
          /\ Len(NewComments) = 1
          /\ NewComments[1].kind = "feedback"
          /\ NewComments[1].text = Strip(last.req.text)
    /\ DailyFeedbackStored

(* Feedback with surrounding whitespace was stored stripped.               *)
C7_Witness ==
    /\ FeedbackOnProject /\ last.status = 200
    /\ last.req.text # Strip(last.req.text)
    /\ Len(NewComments) = 1 /\ NewComments[1].text = Strip(last.req.text)

(* The link that a complete_use_case request names, in a store; 0 if none. *)
NamedLink(d) ==
    LET P == FirstOf(PocsOf(d, last.req.poc_uid))
        E == FirstOf(UseCasesOf(d, last.req.use_case_code, 1))
    IN IF P = 0 \/ E = 0 THEN 0 ELSE FirstOf(LinksOf(d, P, E))

MarkedComplete ==
    /\ last.status = 200
    /\ \/ Called("poc", "complete_use_case") /\ last.req.completed = "true"
       \/ Called("doc", "complete_use_case")

AlreadyComplete == NamedLink(pre) # 0 /\ pre.pucs[NamedLink(pre)].is_completed

C9_ApiKey ==
    last.op # "init" =>
        /\ (secret # "" /\ last.hdr # secret) => (last.status = 401 /\ DB = pre)
        /\ secret = "" => last.status # 401

(* A wrong key was refused while the store holds records.                  *)
C9_Witness ==
    /\ secret = "s3" /\ last.hdr = "bad" /\ last.status = 401
    /\ pocs # <<>> /\ DB = pre

(* C10: from an empty store, after any sequence of requests served one     *)
(* after another, no two use-case records share (code, version) and no two *)
(* link records share (poc, use_case).                                     *)
C10_UniqueKeys ==
    /\ \A i, j \in 1..Len(ucs) :
          (ucs[i].code = ucs[j].code /\ ucs[i].version = ucs[j].version) => i = j
    /\ \A i, j \in 1..Len(pucs) :
          (pucs[i].poc = pucs[j].poc /\ pucs[i].use_case = pucs[j].use_case) => i = j

(* A request resolved a use case and a link that were already stored,      *)
(* among several use cases and links.                                      *)
C10_Witness ==
    /\ last.status = 200 /\ last.puc_id # 0
    /\ Len(ucs) >= 2 /\ Len(pucs) >= 2
    /\ Len(ucs) = Len(pre.ucs) /\ Len(pucs) = Len(pre.pucs)

---------------------------------------------------------------------------
(* Project identity *)

(* C11: once a project record exists with a poc_uid, no request changes    *)
(* that record's poc_uid (and no project record is deleted).               *)
C11_PocUidStable ==
    /\ Len(pocs) >= Len(pre.pocs)
    /\ \A i \in 1..Len(pre.pocs) : pocs[i].poc_uid = pre.pocs[i].poc_uid

(* A request patched a stored project record and its poc_uid is the same.  *)
C11_Witness ==
    /\ last.status = 200
    /\ \E i \in 1..Len(pre.pocs) :
          /\ pocs[i] # pre.pocs[i]
          /\ pocs[i].poc_uid = pre.pocs[i].poc_uid
          /\ ~pocs[i].is_active

---------------------------------------------------------------------------
(* Handlers one backend call at a time.  A task is a request in flight:    *)
(* its pc names the backend call it issues next, and a step runs the code  *)
(* up to and including that call.  A call is answered "ok" (2xx),          *)
(* "status" (non-2xx) or "exception" (timeout or connection error).  The   *)
(* requests are authorised and well formed; service_login finds a fresh    *)
(* token, and the calls of verify_pocketbase_health, the diagnostic list   *)
(* of find_poc_by_uid and the password-reset mail, whose answers the code  *)
(* ignores and which write nothing, are not steps.                         *)

Outcomes == { "ok", "status", "exception" }

RollBack(d, tk) ==
    [db |-> IF tk.pc = "done" /\ tk.status >= 500 THEN tk.start ELSE d, tk |-> tk]

R(d, tk) == [db |-> d, tk |-> tk]

Done(tk, status, error) ==
    [tk EXCEPT !.pc = "done", !.status = status, !.error = error]

(* except Exception: a timeout, a connection error or an explicit raise.   *)
Raised(tk) == Done(tk, 500, "internal_error")

(* except requests.HTTPError: raise_for_status on a non-2xx answer.        *)
HttpError(tk) == Done(tk, 500, "backend_http_error")

Wrote(tk) == [tk EXCEPT !.writes = @ + 1]

(* api_register *)

StepFindUser(d, tk, f) ==
    IF f = "exception" THEN R(d, Raised(tk))
    ELSE LET hit == IF f = "status" THEN 0 ELSE find_user_by_email(d, tk.req.sa_email)
         IN IF hit = 0
            THEN R(d, [tk EXCEPT !.pc = "goc_user_get",
                                 !.miss = Cardinality(ProjectsOfTriple(d, tk.req))])
            ELSE R(d, [tk EXCEPT !.pc = "find_poc", !.se = hit])

StepFindPoc(d, tk, f) ==
    IF f = "exception" THEN R(d, Raised(tk))
    ELSE LET hit == IF f = "status" THEN 0
                    ELSE FirstOf(CompositeFilter(d, tk.se, tk.req.prospect, tk.req.product))
         IN IF hit = 0
            THEN R(d, [tk EXCEPT !.pc = "goc_user_get",
                                 !.miss = Cardinality(ProjectsOfTriple(d, tk.req))])
            ELSE R(d, [Done(tk, 200, "") EXCEPT !.poc = hit,
                                                !.poc_uid = d.pocs[hit].poc_uid])

StepGocUserGet(d, tk, f) ==
    IF f # "ok" THEN R(d, Raised(tk))
    ELSE LET hit == FirstOf(UserLikeFilter(d, NormEmail(tk.req.sa_email)))
         IN IF hit = 0 THEN R(d, [tk EXCEPT !.pc = "goc_user_post"])
            ELSE R(d, [tk EXCEPT !.pc = "create_poc", !.se = hit])

(* The users collection is PocketBase's auth collection: it refuses a      *)
(* second record with a stored email.                                      *)
StepGocUserPost(d, tk, f) ==
    LET e == NormEmail(tk.req.sa_email)
    IN IF f # "ok" \/ UserEqFilter(d, e) # {} THEN R(d, Raised(tk))
       ELSE R([d EXCEPT !.users = Append(@, [email |-> e, role |-> "se"])],
              Wrote([tk EXCEPT !.pc = "create_poc", !.se = Len(d.users) + 1]))

StepCreatePoc(d, tk, f) ==
    IF f = "exception" THEN R(d, Raised(tk))
    ELSE IF f = "status" THEN R(d, HttpError(tk))
    ELSE LET poc_uid == generate_poc_uid(d)
         IN R([d EXCEPT !.pocs = Append(@,
                   NewPoc(poc_uid, tk.se, tk.req.prospect, tk.req.product, tk.t))],
              Wrote([Done(tk, 200, "") EXCEPT !.poc = Len(d.pocs) + 1,
                                              !.poc_uid = poc_uid,
                                              !.is_new = TRUE]))
(* find_poc_by_uid, first call of api_heartbeat and api_rating *)

StepFindPocUid(d, tk, f) ==
    IF f = "exception" THEN R(d, Raised(tk))
    ELSE LET hit == IF f = "status" THEN 0 ELSE find_poc_by_uid(d, tk.req.poc_uid)
         IN IF hit = 0 THEN R(d, Done(tk, 404, "poc_not_found"))
            ELSE R(d, [tk EXCEPT !.poc = hit,
                                 !.pc = IF tk.op = "heartbeat" THEN "hb_touch_poc"
                                        ELSE "uc_get"])

(* What the task passes to get_or_create_usecase and                       *)
(* get_or_create_poc_usecase: the heartbeat entry k, or the code of a      *)
(* rating request with every optional argument left out.                   *)
TaskEntry(tk) == tk.req.use_cases[tk.k]

TaskCode(tk) == IF tk.op = "heartbeat" THEN TaskEntry(tk).code ELSE tk.req.use_case_code
TaskTitle(tk) == IF tk.op = "heartbeat" THEN TaskEntry(tk).title ELSE ""
TaskVersion(tk) == IF tk.op = "heartbeat" THEN HbVersion(TaskEntry(tk)) ELSE 1
TaskOrder(tk) == IF tk.op = "heartbeat" THEN TaskEntry(tk).order ELSE NONE
TaskActive(tk) == IF tk.op = "heartbeat" THEN HbActive(TaskEntry(tk)) ELSE "none"
TaskCompleted(tk) == IF tk.op = "heartbeat" THEN HbCompleted(TaskEntry(tk)) ELSE "none"

(* The loops of api_heartbeat: the next listed link that was active when   *)
(* listed, then the next payload entry that has a code.                    *)
NextEntry(use_cases, from) ==
    FirstOf({ k \in from..Len(use_cases) : use_cases[k].code # "" })

ToEntry(tk, from) ==
    LET k == NextEntry(tk.req.use_cases, from)
    IN IF k = 0 THEN Done(tk, 200, "") ELSE [tk EXCEPT !.pc = "uc_get", !.k = k]

(* the handler without its deactivation loop *)
SkipDeact(tk, from) == ToEntry(tk, 1)

NextDeact(links, from) ==
    FirstOf({ k \in from..Len(links) : links[k].is_active })

ToDeact(tk, from) ==
    LET k == NextDeact(tk.links, from)
    IN IF k = 0 THEN ToEntry(tk, 1) ELSE [tk EXCEPT !.pc = "hb_deactivate", !.k = k]

StepTouchPoc(d, tk, f) ==
    IF f = "exception" THEN R(d, Raised(tk))
    ELSE IF f = "status" THEN R(d, [tk EXCEPT !.pc = "hb_list"])
    ELSE R([d EXCEPT !.pocs[tk.poc].last_daily_update_at = tk.t],
           Wrote([tk EXCEPT !.pc = "hb_list"]))

StepList(d, tk, f) ==
    IF f = "exception" THEN R(d, Raised(tk))
    ELSE IF f = "status" THEN R(d, HttpError(tk))
    ELSE LET ids == PocLinks(d, tk.poc)
             existing_pucs == [k \in 1..Len(ids) |->
                                  [id |-> ids[k], is_active |-> d.pucs[ids[k]].is_active]]
         IN R(d, ToDeact([tk EXCEPT !.links = existing_pucs], 1))

StepDeactivate(d, tk, f) ==
    IF f = "exception" THEN R(d, Raised(tk))
    ELSE IF f = "status" THEN R(d, ToDeact(tk, tk.k + 1))
    ELSE R([d EXCEPT !.pucs[tk.links[tk.k].id].is_active = FALSE],
           Wrote(ToDeact(tk, tk.k + 1)))

(* get_or_create_usecase *)

StepUcGet(d, tk, f) ==
    IF f = "exception" THEN R(d, Raised(tk))
    ELSE IF f = "status" THEN R(d, HttpError(tk))
    ELSE LET hit == FirstOf(UseCaseFilter(d, TaskCode(tk), TaskVersion(tk)))
         IN IF hit = 0
            THEN R(d, [tk EXCEPT !.pc = "uc_post",
                                 !.miss = Cardinality(UseCasesOf(d, TaskCode(tk),
                                                                 TaskVersion(tk)))])
            ELSE R(d, [tk EXCEPT !.uc = hit,
                                 !.pc = IF TaskTitle(tk) # ""
                                           /\ d.ucs[hit].title # TaskTitle(tk)
                                        THEN "uc_patch" ELSE "puc_get"])

StepUcPatch(d, tk, f) ==
    IF f = "exception" THEN R(d, Raised(tk))
    ELSE IF f = "status" THEN R(d, [tk EXCEPT !.pc = "puc_get"])
    ELSE R([d EXCEPT !.ucs[tk.uc].title = TaskTitle(tk)],
           Wrote([tk EXCEPT !.pc = "puc_get"]))

StepUcPost(d, tk, f) ==
    IF f = "exception" THEN R(d, Raised(tk))
    ELSE IF f = "status" THEN R(d, HttpError(tk))
    ELSE R([d EXCEPT !.ucs = Append(@,
               [code |-> TaskCode(tk),
                title |-> IF TaskTitle(tk) = "" THEN DefaultTitle(TaskCode(tk))
                          ELSE TaskTitle(tk),
                version |-> TaskVersion(tk)])],
           Wrote([tk EXCEPT !.uc = Len(d.ucs) + 1, !.pc = "puc_get"]))

(* get_or_create_poc_usecase *)

AfterPuc(tk) ==
    IF tk.op = "heartbeat"
    THEN ToEntry([tk EXCEPT !.processed = @ + 1], tk.k + 1)
    ELSE [tk EXCEPT !.pc = "rate"]

LinkWanted(tk, existing) ==
    LinkUpdate(existing, TaskOrder(tk), TaskActive(tk), TaskCompleted(tk), tk.t)

(* The update payload was built from the record as the lookup returned it; *)
(* the patch writes the payload's fields over the record as it is now.     *)
Patched(cur, seen, wanted) ==
    [cur EXCEPT
        !.order = IF wanted.order # seen.order THEN wanted.order ELSE @,
        !.is_active = IF wanted.is_active # seen.is_active THEN wanted.is_active ELSE @,
        !.is_completed = IF wanted.is_completed # seen.is_completed
                         THEN wanted.is_completed ELSE @,
        !.completed_at = IF wanted.is_completed # seen.is_completed
                         THEN wanted.completed_at ELSE @]

StepPucGet(d, tk, f) ==
    IF f = "exception" THEN R(d, Raised(tk))
    ELSE IF f = "status" THEN R(d, HttpError(tk))
    ELSE LET hit == FirstOf(LinkFilter(d, tk.poc, tk.uc))
         IN IF hit = 0 THEN R(d, [tk EXCEPT !.pc = "puc_post"])
            ELSE IF LinkWanted(tk, d.pucs[hit]) # d.pucs[hit]
            THEN R(d, [tk EXCEPT !.puc = hit, !.seen = d.pucs[hit], !.pc = "puc_patch"])
            ELSE R(d, AfterPuc([tk EXCEPT !.puc = hit]))

StepPucPatch(d, tk, f) ==
    IF f = "exception" THEN R(d, Raised(tk))
    ELSE IF f = "status" THEN R(d, AfterPuc(tk))
    ELSE R([d EXCEPT !.pucs[tk.puc] = Patched(@, tk.seen, LinkWanted(tk, tk.seen))],
           Wrote(AfterPuc(tk)))

StepPucPost(d, tk, f) ==
    IF f = "exception" THEN R(d, Raised(tk))
    ELSE IF f = "status" THEN R(d, HttpError(tk))
    ELSE R([d EXCEPT !.pucs = Append(@,
               LinkCreate(tk.poc, tk.uc, TaskOrder(tk), TaskActive(tk),
                          TaskCompleted(tk), tk.t))],
           Wrote(AfterPuc([tk EXCEPT !.puc = Len(d.pucs) + 1])))

(* api_rating, after the link is resolved *)

StepRate(d, tk, f) ==
    IF f = "exception" THEN R(d, Raised(tk))
    ELSE IF f = "status" THEN R(d, Done(tk, 200, ""))
    ELSE R(RatingPatch(d, tk.puc, tk.req.rating), Wrote(Done(tk, 200, "")))
(* api_daily_update of doc_public_api.py in three steps: the resolver     *)
(* calls up to the project patch (answered as the first of them, the user  *)
(* lookup, is), the daily_status snapshot, and the link listing with the   *)
(* reconciliation and the entries that follow it.                          *)

StepDuBegin(d, tk, f) ==
    IF f = "exception" THEN R(d, Raised(tk))
    ELSE IF f = "status" THEN R(d, HttpError(tk))
    ELSE LET u == doc_get_or_create_user_se(d, tk.req.se_email)
             p == get_or_create_poc(u.db, tk.req.poc_uid, tk.req.customer_name,
                                    u.id, tk.t)
         IN R([p.db EXCEPT !.pocs[p.id].last_daily_update_at = tk.t],
              Wrote([tk EXCEPT !.se = u.id, !.poc = p.id, !.pc = "du_snapshot"]))

StepDuSnapshot(d, tk, f) ==
    IF f = "exception" THEN R(d, Raised(tk))
    ELSE IF f = "status" THEN R(d, [tk EXCEPT !.pc = "du_rest"])
    ELSE R([d EXCEPT !.snaps = Append(@, [poc |-> tk.poc, se |-> tk.se])],
           Wrote([tk EXCEPT !.pc = "du_rest"]))

StepDuRest(d, tk, f) ==
    IF f = "exception" THEN R(d, Raised(tk))
    ELSE IF f = "status" THEN R(d, HttpError(tk))
    ELSE LET existing_pucs == PocLinks(d, tk.poc)
             d3 == Deactivate(Deactivate(d, existing_pucs), existing_pucs)
             r == DuProcess(d3, tk.poc, tk.se, tk.req.use_cases, tk.t)
         IN R(r.db, Wrote([(IF r.ok THEN Done(tk, 200, "") ELSE Raised(tk))
                             EXCEPT !.poc_uid = tk.req.poc_uid]))

(* One step of a task: the call at its pc, answered f.                     *)
StepCall(d, tk, f) ==
    CASE tk.pc = "find_user" -> StepFindUser(d, tk, f)
      [] tk.pc = "find_poc" -> StepFindPoc(d, tk, f)
      [] tk.pc = "goc_user_get" -> StepGocUserGet(d, tk, f)
      [] tk.pc = "goc_user_post" -> StepGocUserPost(d, tk, f)
      [] tk.pc = "create_poc" -> StepCreatePoc(d, tk, f)
      [] tk.pc = "find_poc_uid" -> StepFindPocUid(d, tk, f)
      [] tk.pc = "hb_touch_poc" -> StepTouchPoc(d, tk, f)
      [] tk.pc = "hb_list" -> StepList(d, tk, f)
      [] tk.pc = "hb_deactivate" -> StepDeactivate(d, tk, f)
      [] tk.pc = "uc_get" -> StepUcGet(d, tk, f)
      [] tk.pc = "uc_patch" -> StepUcPatch(d, tk, f)
      [] tk.pc = "uc_post" -> StepUcPost(d, tk, f)
      [] tk.pc = "puc_get" -> StepPucGet(d, tk, f)
      [] tk.pc = "puc_patch" -> StepPucPatch(d, tk, f)
      [] tk.pc = "puc_post" -> StepPucPost(d, tk, f)
      [] tk.pc = "rate" -> StepRate(d, tk, f)
      [] tk.pc = "du_begin" -> StepDuBegin(d, tk, f)
      [] tk.pc = "du_snapshot" -> StepDuSnapshot(d, tk, f)
      [] tk.pc = "du_rest" -> StepDuRest(d, tk, f)

(* The answer is booked on the task before the code reacts to it.          *)
Booked(tk, f) ==
    [tk EXCEPT !.calls = @ + 1,
               !.refused = IF f = "ok" THEN @ ELSE @ + 1,
               !.at = IF f # "ok" /\ @ = "" THEN tk.pc ELSE @,
               !.how = IF f # "ok" /\ tk.at = "" THEN f ELSE @]

FirstCall(op) ==
    CASE op = "register" -> "find_user"
      [] op = "heartbeat" -> "find_poc_uid"
      [] op = "rating" -> "find_poc_uid"
      [] op = "daily_update" -> "du_begin"

---------------------------------------------------------------------------
(* The state machines that run handlers one backend call at a time.        *)
(* RaceSpec: two workers serve requests whose backend calls interleave,    *)
(* every call is answered ok.  FaultSpec: one worker, and up to MaxFaults  *)
(* calls of a request are answered with a non-2xx status or an exception.  *)
(* Both start from a store that earlier requests left behind.              *)

MaxRuns == 2
MaxFaults == 1

SeedRegister == [sa_email |-> <<"a">>, prospect |-> "Acme", product |-> "P1"]
SeedRegistered == api_register(EmptyDB, SeedRegister, 1).db
SeedReported ==
    api_heartbeat(SeedRegistered,
                  [poc_uid |-> SeedRegistered.pocs[1].poc_uid,
                   use_cases |-> <<HbDash>>], 1).db
SeedStores == { EmptyDB, SeedRegistered, SeedReported }

SeedUids == { SeedRegistered.pocs[1].poc_uid }

StepRegisterReqs == { SeedRegister }
StepHeartbeatReqs ==
    [poc_uid : SeedUids, use_cases : { <<HbDash>>, <<HbOther>>, <<HbDashTitled>> }]
StepRatingReqs == [poc_uid : SeedUids, use_case_code : Codes, rating : ValidRatings]
StepDailyUpdateReqs ==
    [se_email : DocEmails, poc_uid : ClientUids, customer_name : Customers,
     use_cases : { <<DuDash>> }]

StepInit ==
    /\ \E d \in SeedStores :
          /\ users = d.users /\ pocs = d.pocs /\ ucs = d.ucs /\ pucs = d.pucs
          /\ comments = d.comments /\ snaps = d.snaps
    /\ secret = ""
    /\ now = 2
    /\ last = NoLast
    /\ pre = EmptyDB
    /\ task = [w \in Workers |-> IdleTask]
    /\ auth = NoAuth

Begin(w, op, req) ==
    /\ task[w].pc = "idle"
    /\ now <= MaxRuns + 1
    /\ task' = [task EXCEPT ![w] =
                   [IdleTask EXCEPT !.op = op, !.req = req, !.pc = FirstCall(op),
                                    !.start = DB, !.t = now]]
    /\ now' = now + 1
    /\ UNCHANGED <<users, pocs, ucs, pucs, comments, snaps, secret, last, pre, auth>>

BeginRegister(w) == \E req \in StepRegisterReqs : Begin(w, "register", req)
BeginHeartbeat(w) == \E req \in StepHeartbeatReqs : Begin(w, "heartbeat", req)
BeginRating(w) == \E req \in StepRatingReqs : Begin(w, "rating", req)
BeginDailyUpdate(w) == \E req \in StepDailyUpdateReqs : Begin(w, "daily_update", req)

Call(w, f) ==
    /\ task[w].pc \notin { "idle", "done" }
    /\ f # "ok" => task[w].refused < MaxFaults
    /\ LET r == StepCall(DB, Booked(task[w], f), f)
       IN /\ users' = r.db.users /\ pocs' = r.db.pocs /\ ucs' = r.db.ucs
          /\ pucs' = r.db.pucs /\ comments' = r.db.comments /\ snaps' = r.db.snaps
          /\ task' = [task EXCEPT ![w] = r.tk]
    /\ UNCHANGED <<secret, now, last, pre, auth>>

Finish(w) ==
    /\ task[w].pc = "done"
    /\ last' = [api |-> IF task[w].op = "daily_update" THEN "doc" ELSE "poc",
                op |-> task[w].op, hdr |-> "", parsed |-> TRUE, req |-> task[w].req,
                status |-> task[w].status, error |-> task[w].error,
                poc_uid |-> task[w].poc_uid, is_new |-> task[w].is_new,
                poc_id |-> task[w].poc, uc_id |-> task[w].uc, puc_id |-> task[w].puc,
                comment_id |-> 0, processed |-> task[w].processed]
    /\ pre' = task[w].start
    /\ task' = [task EXCEPT ![w] = IdleTask]
    /\ UNCHANGED <<users, pocs, ucs, pucs, comments, snaps, secret, now, auth>>

RaceNext ==
    \E w \in Workers :
        \/ BeginRegister(w)
        \/ BeginHeartbeat(w)
        \/ BeginRating(w)
        \/ Call(w, "ok")
        \/ Finish(w)

RaceSpec == StepInit /\ [][RaceNext]_vars

FaultNext ==
    \/ BeginRegister(1)
    \/ BeginHeartbeat(1)
    \/ BeginRating(1)
    \/ BeginDailyUpdate(1)
    \/ \E f \in Outcomes : Call(1, f)
    \/ Finish(1)

FaultSpec == StepInit /\ [][FaultNext]_vars

---------------------------------------------------------------------------
(* Overlapping requests *)

(* C12: two requests that resolve the same natural key and overlap can     *)
(* both be told "not found" and both create a record.  Stated as what      *)
(* RaceSpec keeps: a request goes on to create a project or a use case     *)
(* only after a lookup that was answered while no record for its key was   *)
(* stored; so two records for one key come from two lookups that both      *)
(* preceded both creates (the state of C12_Witness).                       *)
C12_CreateOnlyAfterMiss ==
    \A w \in Workers :
        task[w].pc \in { "goc_user_get", "goc_user_post", "create_poc", "uc_post" }
            => task[w].miss = 0

(* Two register requests for one owner, customer and product both answered *)
(* is_new = true and the store holds two project records for that triple.  *)
C12_Witness ==
    /\ \A w \in Workers :
          /\ task[w].op = "register" /\ task[w].pc = "done"
          /\ task[w].status = 200 /\ task[w].is_new /\ task[w].miss = 0
    /\ task[1].req = task[2].req
    /\ Cardinality(ProjectsOfTriple(DB, task[1].req)) = 2

(* Also reachable in RaceSpec: two rating requests for one code both        *)
(* created a use-case record for (code, version 1).                        *)
C12_UseCaseRace ==
    /\ \A w \in Workers : task[w].op = "rating" /\ task[w].pc = "done"
    /\ task[1].req.use_case_code = task[2].req.use_case_code
    /\ Cardinality(UseCasesOf(DB, task[1].req.use_case_code, 1)) = 2

---------------------------------------------------------------------------
(* Backend failures *)

(* A finished request one of whose calls, other than the best-effort       *)
(* daily_status snapshot, was answered with a non-2xx status.              *)
RefusedStatus(w) ==
    /\ task[w].pc = "done" /\ task[w].refused > 0
    /\ task[w].how = "status" /\ task[w].at # "du_snapshot"

(* C13: whenever a backend call of a handler is answered with a non-2xx    *)
(* status, the handler answers 500 (and not status ok).                    *)
C13_BackendErrorSurfaced ==
    \A w \in Workers : RefusedStatus(w) => task[w].status = 500

(* C13, weaker: a handler one of whose calls was answered non-2xx does not *)
(* answer 200.  Violated as well: the patch calls are not checked.         *)
C13_BackendErrorNotOk ==
    \A w \in Workers : RefusedStatus(w) => task[w].status # 200

(* C13, the part that holds: a non-2xx answer to a call whose response the *)
(* code checks (raise_for_status, or status_code >= 400 followed by raise) *)
(* ends the request with 500, with no further backend call.                *)
CheckedCalls ==
    { "goc_user_get", "goc_user_post", "create_poc", "hb_list", "uc_get", "uc_post",
      "puc_get", "puc_post", "du_begin", "du_rest" }

C13_CheckedCallsSurface ==
    \A w \in Workers :
        (task[w].refused > 0 /\ task[w].how = "status" /\ task[w].at \in CheckedCalls)
            => (task[w].pc = "done" /\ task[w].status = 500)

(* The step in which a request is given up: one of its calls is refused   *)
(* and the handler answers an error.                                       *)
AbortStep(w) ==
    /\ task[w].pc \notin { "idle", "done" }
    /\ task'[w].pc = "done" /\ task'[w].status >= 500
    /\ task'[w].refused > task[w].refused

(* C14: when a handler aborts with an error, the writes it has already     *)
(* made stay in the backend and no compensating write is issued: the       *)
(* aborting step leaves every collection as the earlier steps left it.     *)
C14_NoRollback ==
    [][\A w \in Workers : AbortStep(w) => DB' = DB]_vars

(* A heartbeat failed while resolving a listed entity after it had         *)
(* deactivated a link: the request answered 500 and the link is inactive.  *)
C14_Witness ==
    /\ task[1].op = "heartbeat" /\ task[1].pc = "done" /\ task[1].status = 500
    /\ task[1].at \in { "uc_get", "uc_post", "puc_get", "puc_post" }
    /\ \E k \in 1..Len(task[1].links) :
          /\ task[1].links[k].is_active
          /\ task[1].start.pucs[task[1].links[k].id].is_active
          /\ ~pucs[task[1].links[k].id].is_active

(* Also reachable in FaultSpec: a register whose project creation was      *)
(* refused answered 500 and the user it had just created is stored.        *)
C14_RegisterKeepsUser ==
    /\ task[1].op = "register" /\ task[1].pc = "done" /\ task[1].status = 500
    /\ task[1].at = "create_poc"
    /\ Len(users) = Len(task[1].start.users) + 1
    /\ pocs = task[1].start.pocs

(* A finished daily_update whose only failed call was the daily_status    *)
(* snapshot.                                                               *)
SnapshotFailed(w) ==
    /\ task[w].op = "daily_update" /\ task[w].pc = "done"
    /\ task[w].refused = 1 /\ task[w].at = "du_snapshot"

(* C15: in daily_update a failure of the snapshot write (error status,     *)
(* timeout or connection error) does not abort the request: the entries    *)
(* are still processed and the request answers 200.                        *)
C15_SnapshotFailureTolerated ==
    \A w \in Workers :
        SnapshotFailed(w) =>
            /\ task[w].status = 200
            /\ \E i \in 1..Len(pucs) : pucs[i].poc = task[w].poc /\ pucs[i].is_active

(* C15, the part that holds: a snapshot write answered with an error       *)
(* status is ignored; the entries are processed and the request answers    *)
(* 200 without a daily_status row.                                         *)
C15_SnapshotStatusTolerated ==
    \A w \in Workers :
        (SnapshotFailed(w) /\ task[w].how = "status") =>
            /\ task[w].status = 200
            /\ snaps = task[w].start.snaps
            /\ \E i \in 1..Len(pucs) : pucs[i].poc = task[w].poc /\ pucs[i].is_active

---------------------------------------------------------------------------
(* Comments *)

RECURSIVE DuQuestions(_)
DuQuestions(use_cases) ==
    IF use_cases = <<>> THEN <<>>
    ELSE SelectSeq(Head(use_cases).questions, LAMBDA x : x # <<>>)
            \o DuQuestions(Tail(use_cases))

(* C16: comments are append-only.  No request changes or removes a stored  *)
(* comment; a successful api_feedback or api_comment adds exactly one      *)
(* comment, a successful daily_update one per non-empty feedback or        *)
(* question string, also when an equal comment is already stored.          *)
C16_CommentsAppendOnly ==
    /\ OldCommentsKept
    /\ (Called("poc", "feedback") /\ last.status = 200) => Len(NewComments) = 1
    /\ (Called("doc", "comment") /\ last.status = 200) => Len(NewComments) = 1
    /\ (Called("doc", "daily_update") /\ last.status = 200) =>
          Len(NewComments) = Len(DuFeedback(last.req.use_cases))
                                + Len(DuQuestions(last.req.use_cases))

(* The same feedback was submitted again and stored as a second record.    *)
C16_Witness ==
    /\ Called("poc", "feedback") /\ last.status = 200
    /\ Len(NewComments) = 1
    /\ \E i \in 1..Len(pre.comments) : pre.comments[i] = NewComments[1]

---------------------------------------------------------------------------
(* Unknown project *)

(* A request of poc_public_api that passes the field checks of its handler *)
(* and names a poc_uid that no project record carries.                     *)
WellFormed ==
    CASE last.op = "heartbeat" -> last.req.use_cases # <<>>
      [] last.op = "complete_use_case" ->
            last.req.use_case_code # "" /\ last.req.completed # "none"
      [] last.op = "rating" ->
            /\ last.req.use_case_code # "" /\ last.req.rating # NONE
            /\ ~OutOfRange(last.req.rating)
      [] last.op = "feedback" ->
            last.req.use_case_code # "" /\ Strip(last.req.text) # <<>>
      [] OTHER -> FALSE

UnknownProject ==
    /\ last.api = "poc" /\ last.parsed
    /\ last.op \in { "heartbeat", "complete_use_case", "rating", "feedback" }
    /\ last.req.poc_uid # NONE
    /\ PocsOf(pre, last.req.poc_uid) = {}
    /\ WellFormed

(* C17: heartbeat, complete_use_case, rating and feedback called with a    *)
(* poc_uid that matches no project answer 404 and leave every collection   *)
(* as it was.                                                              *)
C17_UnknownProjectNotFound ==
    UnknownProject => (last.status = 404 /\ last.error = "poc_not_found" /\ DB = pre)

(* A heartbeat for an unknown poc_uid was answered 404 while the store     *)
(* holds a project with links.                                             *)
C17_Witness ==
    /\ UnknownProject /\ last.op = "heartbeat" /\ last.status = 404
    /\ pocs # <<>> /\ pucs # <<>>

---------------------------------------------------------------------------
(* service_login and the cached token.  AuthSpec lets the clock advance    *)
(* and calls service_login of either process; the backend grants or        *)
(* refuses the authentication request.                                     *)

AUTH_TOKEN_MAX_AGE == 3600
MaxTicks == 4
AuthTicks == { 1, AUTH_TOKEN_MAX_AGE - 1 }

(* service_login of poc_public_api.py *)
service_login(a, force, granted) ==
    LET called == [a EXCEPT !.api = "poc", !.force = force, !.granted = granted,
                            !.had = a.token, !.had_time = a.token_time,
                            !.at = a.clock]
        token_age == a.clock - a.token_time
    IN IF a.token /\ ~force /\ token_age < AUTH_TOKEN_MAX_AGE
       THEN [called EXCEPT !.sent = FALSE]
       ELSE LET expired == [called EXCEPT !.token = IF a.token /\ ~force THEN FALSE ELSE @,
                                          !.sent = TRUE]
            IN IF granted
               THEN [expired EXCEPT !.token = TRUE, !.token_time = a.clock]
               ELSE expired

(* service_login of doc_public_api.py *)
doc_service_login(a, granted) ==
    LET called == [a EXCEPT !.api = "doc", !.force = FALSE, !.granted = granted,
                            !.had = a.doc_token, !.had_time = a.doc_time,
                            !.at = a.clock]
    IN IF a.doc_token THEN [called EXCEPT !.sent = FALSE]
       ELSE IF granted
            THEN [called EXCEPT !.sent = TRUE, !.doc_token = TRUE, !.doc_time = a.clock]
            ELSE [called EXCEPT !.sent = TRUE]

AuthInit ==
    /\ users = <<>> /\ pocs = <<>> /\ ucs = <<>> /\ pucs = <<>>
    /\ comments = <<>> /\ snaps = <<>>
    /\ secret = "" /\ now = 1 /\ last = NoLast /\ pre = EmptyDB
    /\ task = [w \in Workers |-> IdleTask]
    /\ auth = NoAuth

AuthFrame ==
    UNCHANGED <<users, pocs, ucs, pucs, comments, snaps, secret, now, last, pre, task>>

AuthTick ==
    /\ auth.ticks < MaxTicks
    /\ \E d \in AuthTicks :
          auth' = [auth EXCEPT !.clock = @ + d, !.ticks = @ + 1]
    /\ AuthFrame

PocServiceLogin ==
    /\ \E force \in BOOLEAN, granted \in BOOLEAN :
          auth' = service_login(auth, force, granted)
    /\ AuthFrame

DocServiceLogin ==
    /\ \E granted \in BOOLEAN : auth' = doc_service_login(auth, granted)
    /\ AuthFrame

AuthNext ==
    \/ AuthTick
    \/ PocServiceLogin
    \/ DocServiceLogin

AuthSpec == AuthInit /\ [][AuthNext]_vars

(* What C18 says decides whether the last call authenticates: no token was *)
(* cached, or the cached token was at least AUTH_TOKEN_MAX_AGE old, or     *)
(* force was set.                                                          *)
MustAuthenticate ==
    \/ ~auth.had
    \/ auth.at - auth.had_time >= AUTH_TOKEN_MAX_AGE
    \/ auth.force

TokenKept ==
    IF auth.api = "poc"
    THEN auth.token = auth.had /\ auth.token_time = auth.had_time
    ELSE auth.doc_token = auth.had /\ auth.doc_time = auth.had_time

(* C18: service_login sends an authentication request exactly when no      *)
(* token is cached, or the cached token is at least AUTH_TOKEN_MAX_AGE     *)
(* old, or force is set; otherwise it makes no backend call and the cached *)
(* token and its time are unchanged.                                       *)
C18_ServiceLogin ==
    auth.api # "" =>
        /\ auth.sent <=> MustAuthenticate
        /\ ~auth.sent => TokenKept

(* C18, the part that holds: service_login of poc_public_api.              *)
C18_PocServiceLogin ==
    auth.api = "poc" =>
        /\ auth.sent <=> MustAuthenticate
        /\ ~auth.sent => TokenKept
        /\ (auth.sent /\ auth.granted) => (auth.token /\ auth.token_time = auth.at)

---------------------------------------------------------------------------
(* Users by email *)

LookupEmails == Emails \cup DocEmails \cup { <<" ", "a">>, <<"B", "A", " ">> }

SameEmail(d, email) ==
    { i \in 1..Len(d.users) : NormEmail(d.users[i].email) = NormEmail(email) }

ResolvedIgnoringCase(d, email, r) ==
    IF SameEmail(d, email) # {}
    THEN r.id \in SameEmail(d, email) /\ Len(r.db.users) = Len(d.users)
    ELSE r.id = Len(d.users) + 1 /\ Len(r.db.users) = Len(d.users) + 1

(* C19: resolving an email returns an existing user exactly when that      *)
(* user's email equals it ignoring case and surrounding whitespace, and    *)
(* creates a new user otherwise, in both APIs.                             *)
C19_EmailIgnoringCase ==
    \A email \in LookupEmails :
        /\ ResolvedIgnoringCase(DB, email, get_or_create_user_se(DB, email))
        /\ ResolvedIgnoringCase(DB, email, doc_get_or_create_user_se(DB, email))

(* C19 for get_or_create_user_se of poc_public_api alone.                  *)
C19_PocEmailIgnoringCase ==
    \A email \in LookupEmails :
        ResolvedIgnoringCase(DB, email, get_or_create_user_se(DB, email))

(* C19 for get_or_create_user_se of doc_public_api alone.                  *)
C19_DocEmailIgnoringCase ==
    \A email \in LookupEmails :
        ResolvedIgnoringCase(DB, email, doc_get_or_create_user_se(DB, email))

(* C19, what the resolvers do instead: poc_public_api returns the first    *)
(* user whose email contains the normalised email ignoring case and        *)
(* creates a user with the normalised email when there is none;            *)
(* doc_public_api returns the first user whose email is the given string   *)
(* and creates a user with the email as given when there is none.          *)
C19_EmailAsFiltered ==
    \A email \in LookupEmails :
        LET r == get_or_create_user_se(DB, email)
            q == doc_get_or_create_user_se(DB, email)
            like == { i \in 1..Len(users) : Like(users[i].email, NormEmail(email)) }
            eq == { i \in 1..Len(users) : users[i].email = email }
        IN /\ IF like # {}
              THEN r.id = Min(like) /\ Len(r.db.users) = Len(users)
              ELSE r.db.users = Append(users, [email |-> NormEmail(email), role |-> "se"])
                   /\ r.id = Len(users) + 1
           /\ IF eq # {}
              THEN q.id = Min(eq) /\ q.db = DB
              ELSE q.db.users = Append(users, [email |-> email, role |-> "se"])
                   /\ q.id = Len(users) + 1

---------------------------------------------------------------------------
(* Patch-if-changed in get_or_create_usecase and get_or_create_poc_usecase *)

(* Some supplied field of the request differs from the stored link.        *)
LinkFieldDiffers(tk, rec) ==
    \/ TaskOrder(tk) # NONE /\ rec.order # TaskOrder(tk)
    \/ TaskActive(tk) # "none" /\ rec.is_active # (TaskActive(tk) = "true")
    \/ TaskCompleted(tk) # "none" /\ rec.is_completed # (TaskCompleted(tk) = "true")

(* A changed field of a link was supplied and now has the supplied value;  *)
(* the completion time changes only together with is_completed.            *)
LinkFrame(tk, old, new) ==
    /\ new.poc = old.poc /\ new.use_case = old.use_case /\ new.rating = old.rating
    /\ new.order # old.order => TaskOrder(tk) # NONE /\ new.order = TaskOrder(tk)
    /\ new.is_active # old.is_active =>
          TaskActive(tk) # "none" /\ new.is_active = (TaskActive(tk) = "true")
    /\ new.is_completed # old.is_completed =>
          TaskCompleted(tk) # "none" /\ new.is_completed = (TaskCompleted(tk) = "true")
    /\ new.completed_at # old.completed_at => new.is_completed # old.is_completed

UseCaseStep(w) ==
    /\ task[w].pc \in { "uc_get", "uc_patch" }
    /\ task'[w] # task[w]
    /\ FirstOf(UseCaseFilter(DB, TaskCode(task[w]), TaskVersion(task[w]))) # 0

LinkStep(w) ==
    /\ task[w].pc \in { "puc_get", "puc_patch" }
    /\ task'[w] # task[w]
    /\ FirstOf(LinkFilter(DB, task[w].poc, task[w].uc)) # 0

(* C20: when get_or_create_usecase or get_or_create_poc_usecase finds an   *)
(* existing record, a write is issued exactly when some supplied field     *)
(* differs from the stored value, the write changes only supplied fields   *)
(* to the supplied values (the completion time with is_completed), and     *)
(* every other field and record keeps its value.                           *)
C20_PatchIfChanged ==
    [][\A w \in Workers :
          /\ UseCaseStep(w) =>
                LET tk == task[w]
                    hit == FirstOf(UseCaseFilter(DB, TaskCode(tk), TaskVersion(tk)))
                IN /\ Len(ucs') = Len(ucs)
                   /\ \A i \in 1..Len(ucs) :
                         /\ ucs'[i].code = ucs[i].code /\ ucs'[i].version = ucs[i].version
                         /\ ucs'[i].title # ucs[i].title =>
                               i = hit /\ TaskTitle(tk) # "" /\ ucs'[i].title = TaskTitle(tk)
                   /\ tk.pc = "uc_get" /\ task'[w].pc # "done" =>
                         /\ ucs' = ucs
                         /\ task'[w].pc = "uc_patch" <=>
                               (TaskTitle(tk) # "" /\ ucs[hit].title # TaskTitle(tk))
                   /\ <<users', pocs', pucs', comments', snaps'>>
                         = <<users, pocs, pucs, comments, snaps>>
          /\ LinkStep(w) =>
                LET tk == task[w]
                    hit == FirstOf(LinkFilter(DB, tk.poc, tk.uc))
                IN /\ Len(pucs') = Len(pucs)
                   /\ \A i \in 1..Len(pucs) :
                         IF i = hit THEN LinkFrame(tk, pucs[i], pucs'[i])
                         ELSE pucs'[i] = pucs[i]
                   /\ tk.pc = "puc_get" /\ task'[w].pc # "done" =>
                         /\ pucs' = pucs
                         /\ task'[w].pc = "puc_patch" <=> LinkFieldDiffers(tk, pucs[hit])
                   /\ <<users', pocs', ucs', comments', snaps'>>
                         = <<users, pocs, ucs, comments, snaps>>
    ]_vars

(* A heartbeat whose entry supplies title, order and is_active found the   *)
(* use case and the link with exactly these values and wrote nothing but   *)
(* the project's last_seen; the link's completion state, which the entry   *)
(* leaves to its default, is as stored.                                    *)
C20_Witness ==
    \E w \in Workers :
        LET tk == task[w]
        IN /\ tk.op = "heartbeat" /\ tk.pc = "done" /\ tk.status = 200
           /\ tk.req.use_cases = <<HbDashTitled>>
           /\ tk.refused = 0 /\ tk.processed = 1 /\ tk.writes = 1
           /\ tk.puc # 0 /\ pucs = tk.start.pucs /\ ucs = tk.start.ucs
           /\ pucs[tk.puc].order = 5 /\ ~pucs[tk.puc].is_active
           /\ ucs[tk.uc].title = "Dashboard"

---------------------------------------------------------------------------
(* Completion time of a link *)

(* The completion time of link i after the last request, given the link as *)
(* it was before: stamped with the time of the call on a change to         *)
(* completed, cleared on a change to not completed, unchanged otherwise.   *)
(* A link created by the request counts as not completed before.           *)
StampedOnChange(i) ==
    LET was == IF i <= Len(pre.pucs) THEN pre.pucs[i].is_completed ELSE FALSE
        at == IF i <= Len(pre.pucs) THEN pre.pucs[i].completed_at ELSE NoTime
    IN /\ (~was /\ pucs[i].is_completed) => pucs[i].completed_at = now - 1
       /\ (was /\ ~pucs[i].is_completed) => pucs[i].completed_at = NoTime
       /\ (was = pucs[i].is_completed) => pucs[i].completed_at = at

(* C21: a link's completion time is written only on a change of the        *)
(* completed flag: stamped on a change to completed, cleared on a change   *)
(* to not completed, unchanged when the same value is sent again.          *)
C21_CompletionTimeOnChange ==
    \A i \in 1..Len(pucs) : StampedOnChange(i)

(* C21 for the requests of poc_public_api alone.                           *)
C21_PocCompletionTimeOnChange ==
    last.api = "poc" => \A i \in 1..Len(pucs) : StampedOnChange(i)

(* C21 for daily_update of doc_public_api alone.                           *)
C21_DailyUpdateCompletionTime ==
    Called("doc", "daily_update") => \A i \in 1..Len(pucs) : StampedOnChange(i)

(* poc_public_api took a completed link back to not completed and cleared  *)
(* its completion time.                                                    *)
C21_PocCleared ==
    /\ last.api = "poc" /\ last.status = 200
    /\ \E i \in 1..Len(pre.pucs) :
          /\ pre.pucs[i].is_completed /\ pre.pucs[i].completed_at # NoTime
          /\ ~pucs[i].is_completed /\ pucs[i].completed_at = NoTime

---------------------------------------------------------------------------
(* Rating an existing link *)

RatedExisting ==
    /\ Called("poc", "rating") /\ last.status = 200
    /\ last.puc_id \in 1..Len(pre.pucs)

(* C22: api_rating on an existing link changes only that link's rating:    *)
(* is_active, is_completed, completed_at and order are as before the call. *)
C22_RatingOnly ==
    RatedExisting =>
        pucs[last.puc_id] = [pre.pucs[last.puc_id] EXCEPT !.rating = last.req.rating]

(* A new rating was stored on a link that is inactive and completed.       *)
C22_Witness ==
    /\ RatedExisting
    /\ pucs[last.puc_id].rating # pre.pucs[last.puc_id].rating
    /\ ~pucs[last.puc_id].is_active
    /\ pucs[last.puc_id].is_completed /\ pucs[last.puc_id].completed_at # NoTime

---------------------------------------------------------------------------
(* The window in which a project has no active link *)

EntryCalls == { "uc_get", "uc_patch", "uc_post", "puc_get", "puc_patch", "puc_post" }

(* Worker w is in a heartbeat, none of its calls was refused, and it is at *)
(* a call of its first payload entry.                                      *)
AtFirstEntry(w) ==
    /\ task[w].op = "heartbeat" /\ task[w].pc \in EntryCalls
    /\ task[w].processed = 0 /\ task[w].refused = 0

(* C23: api_heartbeat deactivates every active link of the project before  *)
(* it processes the payload: while the first listed entry is processed,    *)
(* and until its link is written, no link of the project is active.        *)
C23_AllInactiveBeforeEntries ==
    \A w \in Workers :
        AtFirstEntry(w) =>
            \A i \in 1..Len(pucs) : pucs[i].poc = task[w].poc => ~pucs[i].is_active

(* The link of the listed entry was active when the request began, is      *)
(* inactive now, and the next call of the handler is the PATCH that makes  *)
(* it active again.                                                        *)
C23_Witness ==
    \E w \in Workers :
        /\ AtFirstEntry(w) /\ task[w].pc = "puc_patch"
        /\ task[w].puc \in 1..Len(task[w].start.pucs)
        /\ task[w].start.pucs[task[w].puc].is_active
        /\ ~pucs[task[w].puc].is_active
        /\ LinkWanted(task[w], pucs[task[w].puc]).is_active

---------------------------------------------------------------------------
(* The entries of a heartbeat *)

CodedEntries(use_cases) == { k \in 1..Len(use_cases) : use_cases[k].code # "" }

HeartbeatOk == Called("poc", "heartbeat") /\ last.status = 200

(* C24: after a successful heartbeat the link of every listed entity has   *)
(* is_active as its entry says (true when omitted) and is_completed as its *)
(* entry says (false when omitted); an entry without a code creates no     *)
(* use case and no link and is not counted in use_cases_processed.         *)
C24_HeartbeatFlags ==
    HeartbeatOk =>
        LET coded == Cardinality(CodedEntries(last.req.use_cases))
        IN /\ \A k \in CodedEntries(last.req.use_cases) :
                 LET e == last.req.use_cases[k]
                     ent == <<e.code, HbVersion(e)>>
                 IN e = LastEntryOf(ent) =>
                       \E i \in 1..Len(pucs) :
                           /\ pucs[i].poc = last.poc_id /\ LinkEntity(pucs[i]) = ent
                           /\ pucs[i].is_active = (e.is_active # "false")
                           /\ pucs[i].is_completed = (e.is_completed = "true")
           /\ last.processed = coded
           /\ \A i \in 1..Len(ucs) : ucs[i].code # ""
           /\ Len(ucs) <= Len(pre.ucs) + coded
           /\ Len(pucs) <= Len(pre.pucs) + coded

(* A heartbeat with an entry without a code and an entry for "dash" that   *)
(* says is_active false counted one entry and left the listed link         *)
(* inactive and not completed.                                             *)
C24_Witness ==
    /\ HeartbeatOk /\ last.req.use_cases = <<HbNoCode, HbDashOff>>
    /\ last.processed = 1
    /\ \E i \in 1..Len(pucs) :
          /\ pucs[i].poc = last.poc_id /\ LinkEntity(pucs[i]) = <<"dash", 2>>
          /\ ~pucs[i].is_active /\ ~pucs[i].is_completed

(* A heartbeat whose entry omits is_active left the listed link active.    *)
C24_OmittedIsActive ==
    /\ HeartbeatOk /\ last.req.use_cases = <<HbDash>>
    /\ \E i \in 1..Len(pre.pucs) :
          /\ pucs[i].poc = last.poc_id /\ LinkEntity(pucs[i]) = <<"dash", 1>>
          /\ pucs[i].is_active /\ ~pre.pucs[i].is_active

---------------------------------------------------------------------------
(* Deregistering a project *)

Deregistered == Called("poc", "deregister") /\ last.req.poc_uid # NONE

(* C25: api_deregister for the poc_uid of an existing project sets that    *)
(* project's is_active to false and stamps deregistered_at, and changes    *)
(* nothing else (poc_uid, owner, links, comments); for a poc_uid of no     *)
(* project it answers 200 and changes nothing; on a project already        *)
(* deregistered it leaves is_active false.                                 *)
C25_Deregister ==
    Deregistered =>
        /\ last.status = 200
        /\ IF PocsOf(pre, last.req.poc_uid) = {}
           THEN DB = pre
           ELSE LET i == Min(PocsOf(pre, last.req.poc_uid))
                IN /\ pocs = [pre.pocs EXCEPT ![i] =
                                 [@ EXCEPT !.is_active = FALSE,
                                           !.deregistered_at = now - 1]]
                   /\ DB = [pre EXCEPT !.pocs = pocs]

(* A project deregistered earlier was deregistered again.                  *)
C25_Witness ==
    /\ Deregistered /\ last.status = 200
    /\ \E i \in PocsOf(pre, last.req.poc_uid) :
          /\ ~pre.pocs[i].is_active /\ pre.pocs[i].deregistered_at # NoTime
          /\ ~pocs[i].is_active /\ pocs[i].deregistered_at = now - 1
          /\ pocs[i].poc_uid = pre.pocs[i].poc_uid

(* A deregister for a poc_uid of no project was answered 200 while the     *)
(* store holds a project.                                                  *)
C25_UnknownProject ==
    /\ Deregistered /\ last.status = 200
    /\ PocsOf(pre, last.req.poc_uid) = {} /\ pocs # <<>> /\ DB = pre

---------------------------------------------------------------------------
(* Two heartbeats for one project at the same time *)

(* The entities (code, version) that project poc_id has an active link to. *)
ActiveLinks(d, poc_id) ==
    { <<d.ucs[d.pucs[i].use_case].code, d.ucs[d.pucs[i].use_case].version>> :
        i \in { j \in 1..Len(d.pucs) : d.pucs[j].poc = poc_id /\ d.pucs[j].is_active } }

(* The active links the snapshot of request req leaves when it is served   *)
(* alone on store d.                                                       *)
ActiveAfter(d, req, poc_id) == ActiveLinks(api_heartbeat(d, req, now).db, poc_id)

BothHeartbeatsDone ==
    /\ \A w \in Workers :
          /\ task[w].op = "heartbeat" /\ task[w].pc = "done" /\ task[w].status = 200
    /\ task[1].poc = task[2].poc
    /\ task[1].req.use_cases # task[2].req.use_cases

(* C26: once two concurrent heartbeats for one project with different      *)
(* lists have both finished, the entities the project has an active link to *)
(* are those that one of the two snapshots alone produces.                 *)
C26_HeartbeatsSerialize ==
    BothHeartbeatsDone =>
        \E w \in Workers :
            ActiveLinks(DB, task[w].poc) = ActiveAfter(DB, task[w].req, task[w].poc)

(* C26, what holds instead: every active link of the project belongs to an *)
(* entity that one of the two requests lists.                              *)
C26_ActiveWithinBothLists ==
    BothHeartbeatsDone =>
        \A ent \in ActiveLinks(DB, task[1].poc) :
            \E w \in Workers :
                \E k \in CodedEntries(task[w].req.use_cases) :
                    LET e == task[w].req.use_cases[k]
                    IN ent = <<e.code, HbVersion(e)>>

(* The two heartbeats ran one after the other and the later snapshot is    *)
(* the active set.                                                         *)
C26_SerialRun ==
    /\ BothHeartbeatsDone
    /\ \E w \in Workers :
          ActiveLinks(DB, task[w].poc) = ActiveAfter(DB, task[w].req, task[w].poc)

---------------------------------------------------------------------------
(* Completed flag and completion time of a link agree *)

Stamped(l) == l.is_completed <=> l.completed_at # NoTime

(* C27: a request of poc_public_api leaves every link it creates, and      *)
(* every link that had is_completed true exactly when completed_at was     *)
(* set, with is_completed true exactly when completed_at is set.           *)
C27_PocKeepsStamped ==
    last.api = "poc" =>
        \A i \in 1..Len(pucs) :
            (i <= Len(pre.pucs) => Stamped(pre.pucs[i])) => Stamped(pucs[i])

(* C27 where only poc_public_api writes: in every state of RaceSpec every  *)
(* link has is_completed true exactly when completed_at is set.            *)
C27_AllStamped == \A i \in 1..Len(pucs) : Stamped(pucs[i])

(* A request of poc_public_api created a completed link stamped with the   *)
(* time of the call and changed another link, which still agrees.          *)
C27_Witness ==
    /\ last.api = "poc" /\ last.status = 200
    /\ \E i \in 1..Len(pucs) :
          i > Len(pre.pucs) /\ pucs[i].is_completed /\ pucs[i].completed_at = now - 1
    /\ \E j \in 1..Len(pre.pucs) : pucs[j] # pre.pucs[j] /\ Stamped(pucs[j])

---------------------------------------------------------------------------
(* api_register when the composite-key lookup is refused *)

(* Worker w has finished a register in which the user lookup or the        *)
(* project lookup of find_poc_by_composite_key was answered with an error  *)
(* status.                                                                 *)
LookupRefused(w) ==
    /\ task[w].op = "register" /\ task[w].pc = "done"
    /\ task[w].how = "status" /\ task[w].at \in { "find_user", "find_poc" }

(* C28: when the user lookup or the project lookup of api_register gets an *)
(* error status, no project is created and the request answers with an     *)
(* error.                                                                  *)
C28_NoCreateAfterRefusedLookup ==
    \A w \in Workers :
        LookupRefused(w) => (task[w].status >= 400 /\ pocs = task[w].start.pocs)

(* C28, the part that holds: a register whose user lookup or project       *)
(* lookup ends in an exception (timeout, connection error) creates no      *)
(* project and answers 500.                                                *)
C28_LookupException ==
    \A w \in Workers :
        (/\ task[w].op = "register" /\ task[w].pc = "done"
         /\ task[w].how = "exception" /\ task[w].at \in { "find_user", "find_poc" })
            => (task[w].status = 500 /\ pocs = task[w].start.pocs)

(* A register for a triple that has a project created a second project     *)
(* after its lookup was refused.                                           *)
C28_DuplicateAfterRefusedLookup ==
    \E w \in Workers :
        /\ LookupRefused(w) /\ task[w].status = 200 /\ task[w].is_new
        /\ Cardinality(ProjectsOfTriple(task[w].start, task[w].req)) = 1
        /\ Cardinality(ProjectsOfTriple(DB, task[w].req)) = 2

---------------------------------------------------------------------------
(* Requests to poc_public_api rejected before processing *)

(* The request is one that the handler refuses on its key or its payload:  *)
(* a missing or wrong key, a body that is not JSON, a missing required     *)
(* field, a rating outside 1..5, a feedback text empty after stripping, a  *)
(* missing or empty use_cases list.                                        *)
BadKey == secret # "" /\ last.hdr # secret

BadPayload ==
    \/ ~last.parsed
    \/ last.op = "register"
          /\ (last.req.sa_email = <<>> \/ last.req.prospect = "" \/ last.req.product = "")
    \/ last.op \in { "deregister", "heartbeat" } /\ last.req.poc_uid = NONE
    \/ last.op = "heartbeat" /\ last.req.use_cases = <<>>
    \/ last.op \in { "complete_use_case", "rating", "feedback" }
          /\ (last.req.poc_uid = NONE \/ last.req.use_case_code = "")
    \/ last.op = "complete_use_case" /\ last.req.completed = "none"
    \/ last.op = "rating"
          /\ (last.req.rating = NONE \/ last.req.rating < 1 \/ last.req.rating > 5)
    \/ last.op = "feedback" /\ Strip(last.req.text) = <<>>

(* C29: a request to poc_public_api with a bad key is answered 401, one    *)
(* with a good key and a bad payload 400, and every request answered 401   *)
(* or 400 leaves every stored record as it was.                            *)
C29_RejectedChangesNothing ==
    last.api = "poc" =>
        /\ BadKey => last.status = 401
        /\ (~BadKey /\ BadPayload) => last.status = 400
        /\ last.status \in { 400, 401 } => DB = pre

(* A rating of 6 for an existing link was answered 400 and the link, which *)
(* carries rating 3, is unchanged.                                         *)
C29_Witness ==
    /\ Called("poc", "rating") /\ last.status = 400 /\ last.error = "invalid_rating"
    /\ last.req.rating = 6
    /\ \E i \in 1..Len(pucs) : pucs[i].rating = 3
    /\ DB = pre

---------------------------------------------------------------------------
(* Registering a deregistered project again *)

DeregisteredOfTriple(d, req) ==
    { i \in ProjectsOfTriple(d, req) :
        ~d.pocs[i].is_active /\ d.pocs[i].deregistered_at # NoTime }

(* C30: api_register for the triple of a deregistered project answers that *)
(* project's poc_uid with is_new = false, creates no project and leaves    *)
(* the project's is_active false.                                          *)
C30_RegisterAfterDeregister ==
    (RegisterServed /\ DeregisteredOfTriple(pre, last.req) # {}) =>
        /\ ~last.is_new
        /\ pocs = pre.pocs
        /\ \E i \in ProjectsOfTriple(pre, last.req) : pocs[i].poc_uid = last.poc_uid
        /\ \A i \in DeregisteredOfTriple(pre, last.req) : ~pocs[i].is_active

(* A register named the triple of the one stored project, which was        *)
(* deregistered, and got its poc_uid back.                                 *)
C30_Witness ==
    /\ RegisterServed /\ ~last.is_new
    /\ Len(pocs) = 1 /\ DeregisteredOfTriple(pre, last.req) = { 1 }
    /\ last.poc_uid = pocs[1].poc_uid /\ ~pocs[1].is_active

=============================================================================
